---- MODULE Spec2Model ----
(***************************************************************************)
(* A model of drscp (N7DR): generation of super-check-partial files from   *)
(* contest logs.  Callsigns are sequences of one-character strings.        *)
(***************************************************************************)
EXTENDS Integers, Sequences, FiniteSets, TLC

VARIABLES
  call,        \* is_bust: the target (correct) call
  copied,      \* is_bust: the copied call
  bust,        \* <<is_bust(call, copied), is_bust(copied, call)>> once computed
  calls,       \* possible_busts: the container of calls, in iteration order
  busts,       \* possible_busts: the returned map
  done         \* which of the two functions have returned

bustVars == <<call, copied, bust, calls, busts, done>>

VARIABLES
  MAX_PARALLEL,            \* -p: number of directories to process at once
  PC_OUTPUT,               \* -xpc: percentage of calls to return
  params_vec,              \* the contests, in the order of the list
  result,                  \* per contest: the CALL_MAP its process_directory returns,
                           \*   or "fatal" when the directory yields no valid log
  task,                    \* per contest: "idle", "running", "ready" or "taken"
  nextcp,                  \* index in params_vec of the next contest to launch
  futures,                 \* list<future<CALL_MAP>>, as contest indices
  processing_directories,  \* the global counter of that name
  xscp_calls,              \* the global accumulator
  harvested,               \* the contests whose result was harvested, in order (history)
  mpc,                     \* where main is: "queue", "drain", "output", "done", "exit"
  emitted,                 \* the calls (with counts) written to stdout
  exit_code                \* the exit status of the process, 0 while it runs

schedVars == <<MAX_PARALLEL, PC_OUTPUT, params_vec, result, task, nextcp, futures,
               processing_directories, xscp_calls, harvested, mpc, emitted, exit_code>>

VARIABLES
  qso_id,      \* the global QSO counter (a plain int)
  reg,         \* per constructing task: the value of qso_id it has read, -1 if none
  made         \* per constructing task: the ids of the QSOs it holds, in order

idVars == <<qso_id, reg, made>>

VARIABLES
  cp,                         \* contest_parameters: [t_start, t_end, hours]
  CUTOFF_LIMIT,               \* -l
  TL_LIMIT,                   \* -tl
  verbose,                    \* -v
  files,                      \* the log files of the directory: sequences of QSO lines
  fileno,                     \* the file being read
  lineno,                     \* the next line of it
  tcall_qsos,                 \* the QSOs accepted from the current file, per tcall
  lastread,                   \* the last line read, the small_qso built, kept or not (history)
  all_qsos,                   \* all QSOs as recorded in the logs, per tcall
  pruned_qsos,                \* the working copy, per tcall
  scp_calls,                  \* the entrants that are included automatically
  n_valid_logs,
  scp_cm,                     \* CALL_MAP of the rcalls that are entrants
  calls_with_no_freq_info,
  calls_with_poor_freq_info,
  all_per_band_qsos,          \* build_minilog(all_qsos)
  pruned_per_band_qsos,       \* build_minilog(pruned_qsos)
  bpc,                        \* per spawned band task: the pass it is about to run
  pruned_vec,                 \* per band task: its pruned vector
  out_calls,                  \* per band task: the set it returned
  returned_calls,
  rv,                         \* the CALL_MAP process_directory returns
  ppc,                        \* where process_directory is
  run,                        \* 1 in the first run of the program on the corpus, 2 in the second
  first_rv                    \* the map the first run returned (history)

pipeVars == <<cp, CUTOFF_LIMIT, TL_LIMIT, verbose, files, fileno, lineno, tcall_qsos,
              lastread, all_qsos, pruned_qsos, scp_calls, n_valid_logs, scp_cm,
              calls_with_no_freq_info, calls_with_poor_freq_info, all_per_band_qsos,
              pruned_per_band_qsos, bpc, pruned_vec, out_calls, returned_calls, rv, ppc, run, first_rv>>

vars == <<bustVars, schedVars, idVars, pipeVars>>

\* ---------------------------------------------------------------- bounds

MaxLen == 3          \* longest callsign drawn for the call analyser

\* ---------------------------------------------------------------- helpers

Abs(x) == IF x < 0 THEN -x ELSE x

\* contains(s, t): t occurs in s as a contiguous substring
contains(s, t) ==
  \E i \in 0..(Len(s) - Len(t)) : SubSeq(s, i + 1, i + Len(t)) = t

\* longer.substr(0, posn) + longer.substr(posn + 1), posn counted from 0
erase_at(s, posn) == SubSeq(s, 1, posn) \o SubSeq(s, posn + 2, Len(s))

\* swap(call_tmp[posn], call_tmp[posn + 1]), posn counted from 0
swap_at(s, posn) ==
  [i \in 1..Len(s) |-> IF i = posn + 1 THEN s[posn + 2]
                       ELSE IF i = posn + 2 THEN s[posn + 1]
                       ELSE s[i]]

\* the loop counting the positions at which two equally long calls differ
differences(a, b) == Cardinality({i \in 1..Len(a) : a[i] # b[i]})

\* is_bust without the test for a character inversion
is_bust_no_inversion(a, b) ==
  IF a = b THEN FALSE
  ELSE IF Abs(Len(a) - Len(b)) >= 2 THEN FALSE
  ELSE IF Abs(Len(a) - Len(b)) = 1
    THEN LET longer  == IF Len(a) > Len(b) THEN a ELSE b
             shorter == IF Len(a) > Len(b) THEN b ELSE a
         IN  \/ contains(longer, shorter)
             \/ \E posn \in 1..(Len(longer) - 2) : erase_at(longer, posn) = shorter
  ELSE differences(a, b) = 1

is_bust(a, b) ==
  IF a = b THEN FALSE
  ELSE IF Abs(Len(a) - Len(b)) >= 2 THEN FALSE
  ELSE IF Abs(Len(a) - Len(b)) = 1
    THEN LET longer  == IF Len(a) > Len(b) THEN a ELSE b
             shorter == IF Len(a) > Len(b) THEN b ELSE a
         IN  \/ contains(longer, shorter)
             \/ \E posn \in 1..(Len(longer) - 2) : erase_at(longer, posn) = shorter
  ELSE \/ differences(a, b) = 1
       \/ \E posn \in 0..(Len(a) - 2) : swap_at(a, posn) = b

\* rv[call] += x on a map that creates the entry on first use
AddBust(bm, c, x) ==
  IF c \in DOMAIN bm THEN [bm EXCEPT ![c] = @ \cup {x}]
  ELSE [k \in DOMAIN bm \cup {c} |-> IF k = c THEN {x} ELSE bm[k]]

\* the inner loop of possible_busts: call1 = cs[i], call2 = cs[j], j from i+1 up
RECURSIVE possible_busts_from(_, _, _, _)
possible_busts_from(cs, i, j, bm) ==
  IF i > Len(cs) THEN bm
  ELSE IF j > Len(cs) THEN possible_busts_from(cs, i + 1, i + 2, bm)
  ELSE possible_busts_from(cs, i, j + 1,
         IF is_bust(cs[i], cs[j])
           THEN AddBust(AddBust(bm, cs[i], cs[j]), cs[j], cs[i])
           ELSE bm)

\* possible_busts adding only rv[call1] += call2
RECURSIVE possible_busts_oneway_from(_, _, _, _)
possible_busts_oneway_from(cs, i, j, bm) ==
  IF i > Len(cs) THEN bm
  ELSE IF j > Len(cs) THEN possible_busts_oneway_from(cs, i + 1, i + 2, bm)
  ELSE possible_busts_oneway_from(cs, i, j + 1,
         IF is_bust(cs[i], cs[j]) THEN AddBust(bm, cs[i], cs[j]) ELSE bm)

possible_busts_oneway(cs) == possible_busts_oneway_from(cs, 1, 2, <<>>)

possible_busts(cs) == possible_busts_from(cs, 1, 2, <<>>)

\* ---------------------------------------------------------------- the call analyser

Alphabet == {"A", "B", "1"}

RECURSIVE StrsOfLen(_)
StrsOfLen(n) ==
  IF n = 0 THEN {<<>>}
  ELSE {Append(s, ch) : s \in StrsOfLen(n - 1), ch \in Alphabet}

Strs == UNION {StrsOfLen(n) : n \in 1..MaxLen}

\* the third call of a container is drawn over two symbols only
Strs2 == {s \in Strs : \A i \in 1..Len(s) : s[i] \in {"A", "1"}}

BustIdle ==
  /\ call = <<>> /\ copied = <<>> /\ bust = <<>>
  /\ calls = <<>> /\ busts = <<>> /\ done = {}

SchedIdle ==
  /\ MAX_PARALLEL = 1 /\ PC_OUTPUT = 100 /\ params_vec = <<>> /\ result = <<>> /\ task = <<>>
  /\ nextcp = 1 /\ futures = <<>> /\ processing_directories = 0
  /\ xscp_calls = <<>> /\ harvested = <<>> /\ mpc = "idle"
  /\ emitted = <<>> /\ exit_code = 0

IdIdle == qso_id = 0 /\ reg = <<>> /\ made = <<>>

NoLine == [tag |-> "", nfields |-> 0, qrg |-> 0, day |-> 0, utc |-> 0,
           tcall |-> <<>>, rcall |-> <<>>]

NoQso == [id |-> 0, tcall |-> <<>>, rcall |-> <<>>, band |-> "BAD", qrg |-> 0,
          time |-> 0, rel_mins |-> 0]

PipeIdle ==
  /\ cp = [t_start |-> 0, t_end |-> 0, hours |-> 0]
  /\ CUTOFF_LIMIT = 1 /\ TL_LIMIT = 1 /\ verbose = FALSE
  /\ files = <<>> /\ fileno = 1 /\ lineno = 1 /\ tcall_qsos = <<>>
  /\ lastread = [line |-> NoLine, qso |-> NoQso, kept |-> FALSE]
  /\ all_qsos = <<>> /\ pruned_qsos = <<>> /\ scp_calls = {} /\ n_valid_logs = 0
  /\ scp_cm = <<>> /\ calls_with_no_freq_info = {} /\ calls_with_poor_freq_info = {}
  /\ all_per_band_qsos = <<>> /\ pruned_per_band_qsos = <<>>
  /\ bpc = <<>> /\ pruned_vec = <<>> /\ out_calls = <<>>
  /\ returned_calls = {} /\ rv = <<>> /\ ppc = "idle"
  /\ run = 1 /\ first_rv = <<>>

InitBust ==
  /\ SchedIdle /\ IdIdle /\ PipeIdle
  /\ call \in Strs
  /\ copied \in Strs
  /\ bust = <<>>
  /\ busts = <<>>
  /\ done = {}
  /\ \/ calls = IF call = copied THEN <<call>> ELSE <<call, copied>>
     \/ /\ call # copied
        /\ \E c \in Strs2 \ {call, copied} : calls = <<call, copied, c>>

IsBust ==
  /\ "is_bust" \notin done
  /\ bust' = <<is_bust(call, copied), is_bust(copied, call)>>
  /\ done' = done \cup {"is_bust"}
  /\ UNCHANGED <<call, copied, calls, busts, schedVars, idVars, pipeVars>>

PossibleBusts ==
  /\ "possible_busts" \notin done
  /\ busts' = possible_busts(calls)
  /\ done' = done \cup {"possible_busts"}
  /\ UNCHANGED <<call, copied, calls, bust, schedVars, idVars, pipeVars>>

NextBust == IsBust \/ PossibleBusts

SpecBust == InitBust /\ [][NextBust]_vars

\* ---- the contract of is_bust, stated without reference to its code

\* short is long with the character at (1-based) position p left out
DeletedAt(long, short, p) ==
  /\ Len(short) = Len(long) - 1
  /\ \A i \in 1..Len(short) : short[i] = long[IF i < p THEN i ELSE i + 1]

OneEditApart(t, c) ==
  /\ t # c
  /\ \/ /\ Abs(Len(t) - Len(c)) = 1
        /\ LET long  == IF Len(t) > Len(c) THEN t ELSE c
               short == IF Len(t) > Len(c) THEN c ELSE t
           IN  \/ \E k \in 0..1 : \A i \in 1..Len(short) : short[i] = long[i + k]
               \/ \E p \in 2..(Len(long) - 1) : DeletedAt(long, short, p)
     \/ /\ Len(t) = Len(c)
        /\ \/ \E i \in 1..Len(t) :
                /\ t[i] # c[i]
                /\ \A j \in (1..Len(t)) \ {i} : t[j] = c[j]
           \/ \E i \in 1..(Len(t) - 1) :
                /\ c[i] = t[i + 1]
                /\ c[i + 1] = t[i]
                /\ \A j \in (1..Len(t)) \ {i, i + 1} : c[j] = t[j]

K1ABC   == <<"K", "1", "A", "B", "C">>
K1ABCDE == <<"K", "1", "A", "B", "C", "D", "E">>
W1AW    == <<"W", "1", "A", "W">>
W1AWW   == <<"W", "1", "A", "W", "W">>
W1AX    == <<"W", "1", "A", "X">>
N7DR    == <<"N", "7", "D", "R">>
N7RD    == <<"N", "7", "R", "D">>
DR7N    == <<"D", "R", "7", "N">>

\* C1: is_bust(target, candidate) is true exactly when the two calls differ and
\* are one insertion/deletion (as a substring or at an interior position), one
\* substitution or one adjacent transposition apart; it is false for equal
\* calls and for lengths differing by two or more; the five worked examples.
C1_IsBustContract ==
  /\ "is_bust" \in done =>
        /\ bust[1] = OneEditApart(call, copied)
        /\ call = copied => ~bust[1]
        /\ Abs(Len(call) - Len(copied)) >= 2 => ~bust[1]
  /\ ~is_bust(K1ABC, K1ABCDE)
  /\ is_bust(W1AW, W1AWW)
  /\ is_bust(W1AW, W1AX)
  /\ is_bust(N7DR, N7RD)
  /\ ~is_bust(N7DR, DR7N)

\* an adjacent transposition (two positions differ) has been recognised
C1_Witness ==
  /\ "is_bust" \in done
  /\ bust[1]
  /\ Len(call) = Len(copied)
  /\ differences(call, copied) = 2

Elems(cs) == {cs[i] : i \in 1..Len(cs)}

\* C2: is_bust is symmetric, the map of possible_busts is a symmetric relation,
\* and a call has an entry exactly when another call of the container is a
\* bust of it.
C2_BustSymmetric ==
  /\ "is_bust" \in done => bust[1] = bust[2]
  /\ "possible_busts" \in done =>
        /\ DOMAIN busts \subseteq Elems(calls)
        /\ \A a \in Elems(calls) :
              /\ a \in DOMAIN busts <=> \E b \in Elems(calls) \ {a} : is_bust(a, b)
              /\ \A b \in Elems(calls) :
                    (a \in DOMAIN busts /\ b \in busts[a])
                      <=> (b \in DOMAIN busts /\ a \in busts[b])

\* a container of three calls in which the call visited last is a bust of an
\* earlier one, and some call has no bust
C2_Witness ==
  /\ "possible_busts" \in done
  /\ "is_bust" \in done
  /\ Len(calls) = 3
  /\ calls[3] \in DOMAIN busts
  /\ \E a \in Elems(calls) : a \notin DOMAIN busts
  /\ bust = <<FALSE, FALSE>>

\* ---------------------------------------------------------------- the contest scheduler (main)

MaxContests == 3     \* most contests in the list
MaxParallel == 2     \* largest -p drawn
MaxCount    == 2     \* largest count of one call in one contest's result

CallX == <<"X", "1", "X">>
CallY == <<"Y", "2", "Y">>

\* the CALL_MAPs a pipeline may return
ResultMaps ==
  {<<>>} \cup {[k \in {CallX} |-> n] : n \in 1..MaxCount}
         \cup {[k \in {CallX, CallY} |-> IF k = CallX THEN n ELSE 1] : n \in 1..MaxCount}

Count(cm, k) == IF k \in DOMAIN cm THEN cm[k] ELSE 0

\* operator+= that stores the new count instead of adding it
CallMapOverwrite(cm, us) ==
  [k \in DOMAIN cm \cup DOMAIN us |-> IF k \in DOMAIN us THEN us[k] ELSE cm[k]]

\* operator+=(CALL_MAP& cm, const CALL_MAP& us): cm[pr.first] += pr.second
CallMapAdd(cm, us) ==
  [k \in DOMAIN cm \cup DOMAIN us |-> Count(cm, k) + Count(us, k)]

\* the throttle test that lets the pool grow to MAX_PARALLEL + 1
PoolFullLate == processing_directories = MAX_PARALLEL + 1

\* while (processing_directories == MAX_PARALLEL)
PoolFull == processing_directories = MAX_PARALLEL

\* the first future of the list that is ready (the for loop with its break); 0 if none
FirstReady ==
  LET ready == {i \in 1..Len(futures) : task[futures[i]] = "ready"}
  IN  IF ready = {} THEN 0 ELSE CHOOSE i \in ready : \A j \in ready : i <= j

RemoveAt(seq, i) == SubSeq(seq, 1, i - 1) \o SubSeq(seq, i + 1, Len(seq))

InitSched ==
  /\ BustIdle /\ IdIdle /\ PipeIdle
  /\ MAX_PARALLEL \in 1..MaxParallel
  /\ PC_OUTPUT = 100
  /\ \E n \in 0..MaxContests :
       /\ params_vec = [i \in 1..n |-> i]
       /\ result \in [1..n -> [ok : {TRUE}, cm : ResultMaps] \cup {[ok |-> FALSE, cm |-> <<>>]}]
       /\ task = [i \in 1..n |-> "idle"]
  /\ nextcp = 1
  /\ futures = <<>>
  /\ processing_directories = 0
  /\ xscp_calls = <<>>
  /\ harvested = <<>>
  /\ mpc = "queue"
  /\ emitted = <<>>
  /\ exit_code = 0

Running == mpc \in {"queue", "drain", "output"}

\* a harvest that forgets processing_directories--
HarvestNoDecrement(i) ==
  /\ xscp_calls' = CallMapAdd(xscp_calls, result[futures[i]].cm)
  /\ harvested' = Append(harvested, futures[i])
  /\ task' = [task EXCEPT ![futures[i]] = "taken"]
  /\ futures' = RemoveAt(futures, i)
  /\ processing_directories' = processing_directories

\* xscp_calls += move(it->get()); futures.erase(it); processing_directories--; break
Harvest(i) ==
  /\ xscp_calls' = CallMapAdd(xscp_calls, result[futures[i]].cm)
  /\ harvested' = Append(harvested, futures[i])
  /\ task' = [task EXCEPT ![futures[i]] = "taken"]
  /\ futures' = RemoveAt(futures, i)
  /\ processing_directories' = processing_directories - 1

\* one pass of the while loop that waits for a free slot
ThrottleHarvest ==
  /\ mpc = "queue"
  /\ nextcp <= Len(params_vec)
  /\ PoolFull
  /\ FirstReady # 0
  /\ Harvest(FirstReady)
  /\ UNCHANGED <<MAX_PARALLEL, PC_OUTPUT, params_vec, result, nextcp, mpc, emitted, exit_code, bustVars, idVars, pipeVars>>

\* futures.emplace(futures.end(), async(...)); processing_directories++
Launch ==
  /\ mpc = "queue"
  /\ nextcp <= Len(params_vec)
  /\ ~PoolFull
  /\ futures' = Append(futures, nextcp)
  /\ task' = [task EXCEPT ![nextcp] = "running"]
  /\ processing_directories' = processing_directories + 1
  /\ nextcp' = nextcp + 1
  /\ UNCHANGED <<MAX_PARALLEL, PC_OUTPUT, params_vec, result, xscp_calls, harvested, mpc, emitted,
                 exit_code, bustVars, idVars, pipeVars>>

\* the for loop over params_vec ends
AllQueued ==
  /\ mpc = "queue"
  /\ nextcp > Len(params_vec)
  /\ mpc' = "drain"
  /\ UNCHANGED <<MAX_PARALLEL, PC_OUTPUT, params_vec, result, task, nextcp, futures,
                 processing_directories, xscp_calls, harvested, emitted, exit_code, bustVars, idVars, pipeVars>>

\* one pass of while (!futures.empty())
DrainHarvest ==
  /\ mpc = "drain"
  /\ futures # <<>>
  /\ FirstReady # 0
  /\ Harvest(FirstReady)
  /\ UNCHANGED <<MAX_PARALLEL, PC_OUTPUT, params_vec, result, nextcp, mpc, emitted, exit_code, bustVars, idVars, pipeVars>>

Drained ==
  /\ mpc = "drain"
  /\ futures = <<>>
  /\ mpc' = "output"
  /\ UNCHANGED <<MAX_PARALLEL, PC_OUTPUT, params_vec, result, task, nextcp, futures,
                 processing_directories, xscp_calls, harvested, emitted, exit_code, bustVars, idVars, pipeVars>>

\* values += pr.second for every call of the map
RECURSIVE ValuesOf(_)
ValuesOf(cm) ==
  IF DOMAIN cm = {} THEN <<>>
  ELSE LET k == CHOOSE x \in DOMAIN cm : TRUE
       IN  <<cm[k]>> \o ValuesOf([x \in DOMAIN cm \ {k} |-> cm[x]])

RECURSIVE SumSeq(_)
SumSeq(v) == IF v = <<>> THEN 0 ELSE Head(v) + SumSeq(Tail(v))

\* the count mass of the values that are at least t
MassAtLeast(values, t) == SumSeq(SelectSeq(values, LAMBDA x : x >= t))

\* the greatest count t such that the values >= t are at least pc % of the
\* number of values
value_line_of_entries(values, pc) ==
  LET enough == {values[i] : i \in {j \in 1..Len(values) :
                   100 * Len(SelectSeq(values, LAMBDA x : x >= values[j]))
                     >= pc * Len(values)}}
  IN  IF enough = {} THEN 0 ELSE CHOOSE t \in enough : \A u \in enough : u <= t

\* value_line(values, pc): the greatest count t such that the values >= t
\* carry at least pc % of the total
value_line(values, pc) ==
  LET enough == {values[i] : i \in {j \in 1..Len(values) :
                   100 * MassAtLeast(values, values[j]) >= pc * SumSeq(values)}}
  IN  IF enough = {} THEN 0 ELSE CHOOSE t \in enough : \A u \in enough : u <= t

\* the pruning that cuts at the mass wanted, inside a run of equal counts
XpcPrunedSplit(cm, pc) ==
  IF pc # 100
    THEN LET enough == {S \in SUBSET DOMAIN cm :
                          /\ \A k \in S, j \in DOMAIN cm \ S : cm[k] >= cm[j]
                          /\ 100 * SumSeq(ValuesOf([k \in S |-> cm[k]]))
                               >= pc * SumSeq(ValuesOf(cm))}
             least  == CHOOSE S \in enough : \A T \in enough : Cardinality(S) <= Cardinality(T)
         IN  [k \in least |-> cm[k]]
    ELSE cm

\* if (PC_OUTPUT != 100) erase_if(xscp_calls, pr.second < val_limit)
XpcPruned(cm, pc) ==
  IF pc # 100
    THEN [k \in {x \in DOMAIN cm : ~(cm[x] < value_line(ValuesOf(cm), pc))} |-> cm[k]]
    ELSE cm

\* the list is pruned and written, main returns 1
Output ==
  /\ mpc = "output"
  /\ xscp_calls' = XpcPruned(xscp_calls, PC_OUTPUT)
  /\ emitted' = XpcPruned(xscp_calls, PC_OUTPUT)
  /\ mpc' = "done"
  /\ exit_code' = 1
  /\ UNCHANGED <<MAX_PARALLEL, PC_OUTPUT, params_vec, result, task, nextcp, futures,
                 processing_directories, harvested, bustVars, idVars, pipeVars>>

\* process_directory of contest c returns its map
TaskReturns(c) ==
  /\ Running
  /\ task[c] = "running"
  /\ result[c].ok
  /\ task' = [task EXCEPT ![c] = "ready"]
  /\ UNCHANGED <<MAX_PARALLEL, PC_OUTPUT, params_vec, result, nextcp, futures, processing_directories,
                 xscp_calls, harvested, mpc, emitted, exit_code, bustVars, idVars, pipeVars>>

\* process_directory of contest c finds no valid log and returns an empty map
TaskReturnsEmpty(c) ==
  /\ Running
  /\ task[c] = "running"
  /\ ~result[c].ok
  /\ task' = [task EXCEPT ![c] = "ready"]
  /\ UNCHANGED <<MAX_PARALLEL, PC_OUTPUT, params_vec, result, nextcp, futures, processing_directories,
                 xscp_calls, harvested, mpc, emitted, exit_code, bustVars, idVars, pipeVars>>

\* process_directory of contest c finds no valid log: exit(-1)
TaskExits(c) ==
  /\ Running
  /\ task[c] = "running"
  /\ ~result[c].ok
  /\ mpc' = "exit"
  /\ exit_code' = 255
  /\ UNCHANGED <<MAX_PARALLEL, PC_OUTPUT, params_vec, result, task, nextcp, futures,
                 processing_directories, xscp_calls, harvested, emitted, bustVars, idVars, pipeVars>>

NextSched ==
  \/ ThrottleHarvest
  \/ Launch
  \/ AllQueued
  \/ DrainHarvest
  \/ Drained
  \/ Output
  \/ \E c \in 1..MaxContests : c \in DOMAIN task /\ TaskReturns(c)
  \/ \E c \in 1..MaxContests : c \in DOMAIN task /\ TaskExits(c)

SpecSched == InitSched /\ [][NextSched]_vars

InFlight == {c \in DOMAIN task : task[c] \in {"running", "ready"}}

\* C9: for MAX_PARALLEL >= 1 the pipelines launched and not yet harvested never
\* number more than MAX_PARALLEL, and processing_directories equals the number
\* of futures held.
C9_PoolBounded ==
  /\ Cardinality(InFlight) <= MAX_PARALLEL
  /\ processing_directories = Len(futures)
  /\ InFlight = {futures[i] : i \in 1..Len(futures)}

\* the pool is full while a contest still waits to be launched
C9_Witness ==
  /\ mpc = "queue"
  /\ nextcp <= Len(params_vec)
  /\ MAX_PARALLEL = 2
  /\ Cardinality(InFlight) = 2
  /\ processing_directories = 2

RECURSIVE SumOver(_, _)
SumOver(S, k) ==
  IF S = {} THEN 0
  ELSE LET c == CHOOSE x \in S : TRUE
       IN  Count(result[c].cm, k) + SumOver(S \ {c}, k)

TimesMerged(c) == Cardinality({i \in 1..Len(harvested) : harvested[i] = c})

\* C10: every pipeline result is merged exactly once, by addition; once all
\* pipelines are drained the accumulator holds, for each call, the sum of its
\* counts over all contests.
C10_MergedOnce ==
  /\ \A c \in DOMAIN task :
       /\ TimesMerged(c) <= 1
       /\ TimesMerged(c) = 1 <=> task[c] = "taken"
  /\ \A k \in {CallX, CallY} \cup DOMAIN xscp_calls :
       Count(xscp_calls, k) = SumOver({c \in DOMAIN task : task[c] = "taken"}, k)
  /\ mpc \in {"output", "done"} =>
       /\ \A c \in DOMAIN task : TimesMerged(c) = 1
       /\ \A k \in {CallX, CallY} \cup DOMAIN xscp_calls :
            Count(xscp_calls, k) = SumOver(DOMAIN task, k)

\* three contests were harvested out of launch order and a count was summed
C10_Witness ==
  /\ mpc = "done"
  /\ harvested = <<2, 1, 3>>
  /\ Count(xscp_calls, CallX) = 5
  /\ Count(xscp_calls, CallY) = 2

\* a step of the main thread
MainStep == ThrottleHarvest \/ Launch \/ AllQueued \/ DrainHarvest \/ Drained \/ Output

\* the main thread keeps polling (sleep_for(1s) between passes) and every
\* pipeline that can return does return
SpecSchedFair ==
  /\ InitSched /\ [][NextSched]_vars
  /\ WF_vars(MainStep)
  /\ \A c \in 1..MaxContests : WF_vars(c \in DOMAIN task /\ TaskReturns(c))
  /\ \A c \in 1..MaxContests : WF_vars(c \in DOMAIN task /\ TaskExits(c))

\* C11: for MAX_PARALLEL >= 1, if every pipeline completes then every contest
\* is launched, every result is harvested, and main reaches the output step
\* and returns with no pipeline in flight and no future held.
C11_SchedulerTerminates ==
  (MAX_PARALLEL >= 1 /\ \A c \in DOMAIN result : result[c].ok) =>
    <>(/\ mpc = "done"
       /\ nextcp = Len(params_vec) + 1
       /\ \A c \in DOMAIN task : task[c] = "taken"
       /\ InFlight = {}
       /\ futures = <<>>
       /\ processing_directories = 0)

\* main has returned after three contests went through a pool of one
C11_Witness ==
  /\ mpc = "done"
  /\ MAX_PARALLEL = 1
  /\ Len(params_vec) = 3
  /\ \A c \in DOMAIN task : task[c] = "taken"
  /\ futures = <<>>

\* the contests whose directory yields no valid log
NoValidLogContests == {c \in DOMAIN result : ~result[c].ok}

\* C18: if a contest directory yields no valid log, the run ends in the fatal
\* error state with a non-zero exit status, and no line of the list has been
\* or is ever written, other contests being processed in parallel or not.
C18_NoValidLogsIsFatal ==
  /\ (NoValidLogContests # {}) => <>(mpc = "exit")
  /\ [](NoValidLogContests # {} => (DOMAIN emitted = {} /\ mpc # "done"))
  /\ [](mpc = "exit" => (exit_code # 0 /\ DOMAIN emitted = {}))

\* the run exits while two pipelines run, after a non-empty result was merged
C18_Witness ==
  /\ mpc = "exit" /\ exit_code = 255
  /\ Cardinality({c \in DOMAIN task : task[c] = "running"}) = 2
  /\ DOMAIN xscp_calls # {}
  /\ DOMAIN emitted = {}

\* C19: the exit status is 0 when the run succeeds (all contests processed
\* and the list written) and non-zero when it ends on an ingest error.
C19_ExitCodes ==
  /\ mpc = "done" => exit_code = 0
  /\ mpc = "exit" => exit_code # 0

\* how many negative values of -p are drawn
NegParallel == 1

\* main after the command line is read, for any integer given with -p
InitSchedAny ==
  /\ BustIdle /\ IdIdle /\ PipeIdle
  /\ MAX_PARALLEL \in (0 - NegParallel)..MaxParallel
  /\ PC_OUTPUT = 100
  /\ \E n \in 0..MaxContests :
       /\ params_vec = [i \in 1..n |-> i]
       /\ result \in [1..n -> [ok : {TRUE}, cm : ResultMaps] \cup {[ok |-> FALSE, cm |-> <<>>]}]
       /\ task = [i \in 1..n |-> "idle"]
  /\ nextcp = 1
  /\ futures = <<>>
  /\ processing_directories = 0
  /\ xscp_calls = <<>>
  /\ harvested = <<>>
  /\ mpc = "queue"
  /\ emitted = <<>>
  /\ exit_code = 0

SpecSchedAny == InitSchedAny /\ [][NextSched]_vars

\* main is in the throttle loop, a contest waiting to be launched
Throttled == mpc = "queue" /\ nextcp <= Len(params_vec) /\ PoolFull

\* C30: for every integer MAX_PARALLEL given with -p, 0 and negative values
\* included, whenever main waits in the throttle loop before launching the
\* next contest at least one pipeline is in flight, so that the end of a
\* pipeline ends the wait; main never waits with no pipeline running.
C30_ThrottleHasPipeline == Throttled => InFlight # {}

\* ---------------------------------------------------------------- the percentage cut

CallZ == <<"Z", "3", "Z">>
CallW == <<"W", "4", "W">>

\* the counts a call of the accumulator may have
CountsDrawn == {1, 50, 100}

\* the accumulators drawn: each of four calls absent or with one of the counts
Accumulators ==
  UNION {[S -> CountsDrawn] : S \in SUBSET {CallX, CallY, CallZ, CallW}}

\* main at the output step, the one contest of the list harvested
InitXpc ==
  /\ BustIdle /\ IdIdle /\ PipeIdle
  /\ MAX_PARALLEL = 1
  /\ PC_OUTPUT \in {1, 50, 80, 99, 100}
  /\ xscp_calls \in Accumulators
  /\ params_vec = <<1>>
  /\ result = <<[ok |-> TRUE, cm |-> xscp_calls]>>
  /\ task = <<"taken">>
  /\ nextcp = 2
  /\ futures = <<>>
  /\ processing_directories = 0
  /\ harvested = <<1>>
  /\ mpc = "output"
  /\ emitted = <<>>
  /\ exit_code = 0

NextXpc == Output

SpecXpc == InitXpc /\ [][NextXpc]_vars

\* the accumulator as it was before the cut
Accumulated == result[1].cm

MassOf(cm) == SumSeq(ValuesOf(cm))

\* C13: with -xpc n, n < 100, the emitted set is upward closed in count: if a
\* call with count k is emitted then every call of the accumulator with count
\* >= k is emitted, so calls of equal count are emitted or dropped together.
C13_TiesNeverSplit ==
  (mpc = "done" /\ PC_OUTPUT < 100) =>
    /\ DOMAIN emitted \subseteq DOMAIN Accumulated
    /\ \A k \in DOMAIN emitted : emitted[k] = Accumulated[k]
    /\ \A k \in DOMAIN emitted : \A j \in DOMAIN Accumulated :
         Accumulated[j] >= Accumulated[k] => j \in DOMAIN emitted

\* the cut at 50 % falls between two calls of count 50: both are emitted, a
\* call of count 1 is not
C13_Witness ==
  /\ mpc = "done" /\ PC_OUTPUT = 50
  /\ DOMAIN Accumulated = {CallX, CallY, CallZ}
  /\ Accumulated[CallX] = 50 /\ Accumulated[CallY] = 50 /\ Accumulated[CallZ] = 1
  /\ DOMAIN emitted = {CallX, CallY}

MaxMade == 3         \* most QSOs one task constructs

\* as many process_directory tasks construct QSOs at once as main has launched
InitIds ==
  /\ BustIdle /\ SchedIdle /\ PipeIdle
  /\ qso_id = 0
  /\ \E n \in 1..MaxParallel :
       /\ reg = [t \in 1..n |-> -1]
       /\ made = [t \in 1..n |-> <<>>]

\* _id(qso_id++) on the plain int: the load ...
IdLoad(t) ==
  /\ reg[t] = -1
  /\ Len(made[t]) < MaxMade
  /\ reg' = [reg EXCEPT ![t] = qso_id]
  /\ UNCHANGED <<qso_id, made, bustVars, schedVars, pipeVars>>

\* ... and the store of the incremented value; the QSO gets the value loaded
IdStore(t) ==
  /\ reg[t] # -1
  /\ qso_id' = reg[t] + 1
  /\ made' = [made EXCEPT ![t] = Append(@, reg[t])]
  /\ reg' = [reg EXCEPT ![t] = -1]
  /\ UNCHANGED <<bustVars, schedVars, pipeVars>>

NextIds ==
  \/ \E t \in 1..MaxParallel : t \in DOMAIN reg /\ IdLoad(t)
  \/ \E t \in 1..MaxParallel : t \in DOMAIN reg /\ IdStore(t)

SpecIds == InitIds /\ [][NextIds]_vars

\* C4: no two QSOs ever held carry the same id, whatever the number of
\* pipelines constructing QSOs concurrently.
C4_IdsUnique ==
  \A t1 \in DOMAIN made, t2 \in DOMAIN made :
    \A i \in 1..Len(made[t1]), j \in 1..Len(made[t2]) :
      (t1 # t2 \/ i # j) => made[t1][i] # made[t2][j]

\* ---------------------------------------------------------------- the QSO model

Letters == {"A", "B", "C", "D", "E", "F", "G", "H", "I", "J", "K", "L", "M",
            "N", "O", "P", "Q", "R", "S", "T", "U", "V", "W", "X", "Y", "Z"}
Digits  == {"0", "1", "2", "3", "4", "5", "6", "7", "8", "9"}

legal_chars == Letters \cup Digits \cup {"/"}

contains_letter(s) == \E i \in 1..Len(s) : s[i] \in Letters
contains_digit(s)  == \E i \in 1..Len(s) : s[i] \in Digits

\* s without the trailing e, if it ends with e
remove_from_end(s, e) ==
  IF Len(s) >= Len(e) /\ SubSeq(s, Len(s) - Len(e) + 1, Len(s)) = e
    THEN SubSeq(s, 1, Len(s) - Len(e))
    ELSE s

SLASH_QRP  == <<"/", "Q", "R", "P">>
SLASH_QRPP == <<"/", "Q", "R", "P", "P">>

HF_BANDS == {"B160", "B80", "B40", "B20", "B15", "B10"}

\* band_from_qrg with the upper band edges excluded
band_from_qrg_open(qrg) ==
  IF qrg >= 1800 /\ qrg < 2000 THEN "B160"
  ELSE IF qrg >= 3500 /\ qrg < 4000 THEN "B80"
  ELSE IF qrg >= 7000 /\ qrg < 7300 THEN "B40"
  ELSE IF qrg >= 14000 /\ qrg < 14350 THEN "B20"
  ELSE IF qrg >= 21000 /\ qrg < 21450 THEN "B15"
  ELSE IF qrg >= 28000 /\ qrg < 29700 THEN "B10"
  ELSE "throw"

\* "throw" stands for the exception thrown outside the contest bands
band_from_qrg(qrg) ==
  IF qrg >= 1800 /\ qrg <= 2000 THEN "B160"
  ELSE IF qrg >= 3500 /\ qrg <= 4000 THEN "B80"
  ELSE IF qrg >= 7000 /\ qrg <= 7300 THEN "B40"
  ELSE IF qrg >= 14000 /\ qrg <= 14350 THEN "B20"
  ELSE IF qrg >= 21000 /\ qrg <= 21450 THEN "B15"
  ELSE IF qrg >= 28000 /\ qrg <= 29700 THEN "B10"
  ELSE "throw"

\* timegm of the date (as days since the epoch) and the HHMM field, tm_sec = 0
timegm(day, utc) == day * 86400 + (utc \div 100) * 3600 + (utc % 100) * 60

\* small_qso(qso_fields) with _id(qso_id++); NoQso is small_qso { }
small_qso(line, id) ==
  IF line.nfields < 9 THEN NoQso
  ELSE IF ~contains_letter(line.tcall) THEN NoQso
  ELSE IF ~contains_digit(line.tcall) THEN NoQso
  ELSE IF ~contains_letter(line.rcall) THEN NoQso
  ELSE IF ~contains_digit(line.rcall) THEN NoQso
  ELSE IF band_from_qrg(line.qrg) = "throw" THEN NoQso
  ELSE [id |-> id, tcall |-> line.tcall, rcall |-> line.rcall,
        band |-> band_from_qrg(line.qrg), qrg |-> line.qrg,
        time |-> timegm(line.day, line.utc), rel_mins |-> 0]

\* in_contest_period with the end of the period included
in_contest_period_closed(t) == (t >= cp.t_start) /\ (t <= cp.t_end)

in_contest_period(t) == (t >= cp.t_start) /\ (t < cp.t_end)

\* contest_parameters: _t_end = _t_start + hours * 3600
contest_parameters(t_start, hours) ==
  [t_start |-> t_start, t_end |-> t_start + hours * 3600, hours |-> hours]

\* int max_rel_mins { cp.hours() * 60 - 1 }
max_rel_mins == cp.hours * 60 - 1

\* ---------------------------------------------------------------- the log ingestor

MapPut(m, k, v) == [x \in DOMAIN m \cup {k} |-> IF x = k THEN v ELSE m[x]]

\* m[k] += q on a map of vectors
MapAppend(m, k, q) == MapPut(m, k, (IF k \in DOMAIN m THEN m[k] ELSE <<>>) \o <<q>>)

\* remove_from_end(call, "/QRP") and then remove_from_end(call, "/QRPP")
StripQrp(c) == remove_from_end(remove_from_end(c, SLASH_QRP), SLASH_QRPP)

\* the QSO as process_directory would store it, after the period test
Stored(q) ==
  [q EXCEPT !.rel_mins = (q.time - cp.t_start) \div 60,
            !.tcall = StripQrp(q.tcall),
            !.rcall = StripQrp(q.rcall)]

\* the tests on the stripped calls without the test for a self-QSO
CallsPassSelf(q) ==
  /\ Len(Stored(q).tcall) >= 3
  /\ Len(Stored(q).rcall) >= 3
  /\ \A i \in 1..Len(Stored(q).tcall) : Stored(q).tcall[i] \in legal_chars
  /\ \A i \in 1..Len(Stored(q).rcall) : Stored(q).rcall[i] \in legal_chars

\* the tests on the stripped calls: size, legal characters, not a self-QSO
CallsPass(q) ==
  /\ Len(Stored(q).tcall) >= 3
  /\ Len(Stored(q).rcall) >= 3
  /\ \A i \in 1..Len(Stored(q).tcall) : Stored(q).tcall[i] \in legal_chars
  /\ \A i \in 1..Len(Stored(q).rcall) : Stored(q).rcall[i] \in legal_chars
  /\ Stored(q).tcall # Stored(q).rcall

\* whether the line's QSO reaches tcall_qsos[qso.tcall()] += move(qso)
Accepted(q) ==
  /\ in_contest_period(q.time)
  /\ q.tcall # <<>>
  /\ CallsPass(q)

\* one pass of the loop over the lines of a log file
ReadLine ==
  /\ ppc = "ingest"
  /\ fileno <= Len(files)
  /\ lineno <= Len(files[fileno])
  /\ LET line == files[fileno][lineno]
         q    == small_qso(line, qso_id)
     IN  IF line.tag = "QSO:"
           THEN /\ qso_id' = qso_id + 1
                /\ lastread' = [line |-> line, qso |-> q, kept |-> Accepted(q)]
                /\ tcall_qsos' = IF Accepted(q)
                                   THEN MapAppend(tcall_qsos, Stored(q).tcall, Stored(q))
                                   ELSE tcall_qsos
           ELSE /\ lastread' = [line |-> line, qso |-> NoQso, kept |-> FALSE]
                /\ UNCHANGED <<qso_id, tcall_qsos>>
  /\ lineno' = lineno + 1
  /\ UNCHANGED <<cp, CUTOFF_LIMIT, TL_LIMIT, verbose, files, fileno, all_qsos, pruned_qsos,
                 scp_calls, n_valid_logs, scp_cm, calls_with_no_freq_info,
                 calls_with_poor_freq_info, all_per_band_qsos, pruned_per_band_qsos, bpc,
                 pruned_vec, out_calls, returned_calls, rv, ppc, reg, made, bustVars, schedVars, run, first_rv>>

\* all_qsos += { tcall, qsos } that replaces the log already stored for tcall
MapInsertOverwrite(m, add) ==
  [k \in DOMAIN m \cup DOMAIN add |-> IF k \in DOMAIN add THEN add[k] ELSE m[k]]

\* all_qsos += { tcall, qsos } for every tcall of the file: mum.insert(il)
MapInsert(m, add) ==
  [k \in DOMAIN m \cup DOMAIN add |-> IF k \in DOMAIN m THEN m[k] ELSE add[k]]

\* the end of a log file with every tcall of the file put into scp_calls
EndFileAllEntrants ==
  /\ ppc = "ingest"
  /\ fileno <= Len(files)
  /\ lineno > Len(files[fileno])
  /\ IF DOMAIN tcall_qsos # {}
       THEN /\ n_valid_logs' = n_valid_logs + 1
            /\ all_qsos' = MapInsert(all_qsos, tcall_qsos)
            /\ scp_calls' = scp_calls \cup DOMAIN tcall_qsos
       ELSE UNCHANGED <<n_valid_logs, all_qsos, scp_calls>>
  /\ fileno' = fileno + 1
  /\ lineno' = 1
  /\ tcall_qsos' = <<>>
  /\ UNCHANGED <<cp, CUTOFF_LIMIT, TL_LIMIT, verbose, files, lastread, pruned_qsos,
                 scp_cm, calls_with_no_freq_info, calls_with_poor_freq_info,
                 all_per_band_qsos, pruned_per_band_qsos, bpc, pruned_vec, out_calls,
                 returned_calls, rv, ppc, idVars, bustVars, schedVars, run, first_rv>>

\* the end of a log file: n_valid_logs, all_qsos, scp_calls
EndFile ==
  /\ ppc = "ingest"
  /\ fileno <= Len(files)
  /\ lineno > Len(files[fileno])
  /\ IF DOMAIN tcall_qsos # {}
       THEN /\ n_valid_logs' = n_valid_logs + 1
            /\ all_qsos' = MapInsert(all_qsos, tcall_qsos)
            /\ scp_calls' = scp_calls \cup
                 {tc \in DOMAIN tcall_qsos : Len(tcall_qsos[tc]) >= TL_LIMIT}
       ELSE UNCHANGED <<n_valid_logs, all_qsos, scp_calls>>
  /\ fileno' = fileno + 1
  /\ lineno' = 1
  /\ tcall_qsos' = <<>>
  /\ UNCHANGED <<cp, CUTOFF_LIMIT, TL_LIMIT, verbose, files, lastread, pruned_qsos,
                 scp_cm, calls_with_no_freq_info, calls_with_poor_freq_info,
                 all_per_band_qsos, pruned_per_band_qsos, bpc, pruned_vec, out_calls,
                 returned_calls, rv, ppc, idVars, bustVars, schedVars, run, first_rv>>

\* if (n_valid_logs == 0) exit(-1)
NoValidLogs ==
  /\ ppc = "ingest"
  /\ fileno > Len(files)
  /\ n_valid_logs = 0
  /\ ppc' = "exit"
  /\ UNCHANGED <<cp, CUTOFF_LIMIT, TL_LIMIT, verbose, files, fileno, lineno, tcall_qsos,
                 lastread, all_qsos, pruned_qsos, scp_calls, n_valid_logs, scp_cm,
                 calls_with_no_freq_info, calls_with_poor_freq_info, all_per_band_qsos,
                 pruned_per_band_qsos, bpc, pruned_vec, out_calls, returned_calls, rv,
                 idVars, bustVars, schedVars, run, first_rv>>

\* ---------------------------------------------------------------- vectors of QSOs

CLOCK_SKEW     == 2
FREQ_SKEW      == 2
RUN_TIME_RANGE == 5

Max(a, b) == IF a > b THEN a ELSE b
Min(a, b) == IF a < b THEN a ELSE b

SeqToSet(v) == {v[i] : i \in 1..Len(v)}

IdsOf(v) == {v[i].id : i \in 1..Len(v)}

\* every QSO of a map tcall -> vector
QsosOf(m) == UNION {SeqToSet(m[k]) : k \in DOMAIN m}

\* SORT(v) with small_qso::operator< (time only): every order std::sort may
\* leave, QSOs of equal time in any order
RECURSIVE Sorts(_)
Sorts(S) ==
  IF S = {} THEN {<<>>}
  ELSE LET firsts == {q \in S : \A r \in S : q.time <= r.time}
       IN  UNION {{<<q>> \o rest : rest \in Sorts(S \ {q})} : q \in firsts}

\* one of these orders, used where only time windows are read from the vector
RECURSIVE SortedVec(_)
SortedVec(S) ==
  IF S = {} THEN <<>>
  ELSE LET q == CHOOSE x \in S : \A r \in S :
                  x.time < r.time \/ (x.time = r.time /\ x.id <= r.id)
       IN  <<q>> \o SortedVec(S \ {q})

\* SORT(qsos) for every log of all_qsos
SortedLogs(m) ==
  {f \in [DOMAIN m -> UNION {Sorts(SeqToSet(m[k])) : k \in DOMAIN m}] :
     \A k \in DOMAIN m : f[k] \in Sorts(SeqToSet(m[k]))}

\* erase_if(vec, pred on the id)
EraseIds(v, ids) == SelectSeq(v, LAMBDA q : q.id \notin ids)

\* lower_bound(vec, minutes) on rel_mins: index of the first QSO not before minutes
LowerBound(v, minutes) ==
  LET notless == {i \in 1..Len(v) : ~(v[i].rel_mins < minutes)}
  IN  IF notless = {} THEN Len(v) + 1 ELSE CHOOSE i \in notless : \A j \in notless : i <= j

\* time_map(vec, max_rel_mins).at(k): entries 0..max_rel_mins, then vec.end()
time_map_at(v, k) ==
  IF k = max_rel_mins + 1 THEN Len(v) + 1 ELSE LowerBound(v, k)

\* the QSOs between time_map.at(lo) and time_map.at(hi + 1)
TimeRange(v, lo, hi) == SubSeq(v, time_map_at(v, lo), time_map_at(v, hi + 1) - 1)

\* get_bounds: the QSOs between lb and ub
get_bounds(target_minutes, minimum_minutes, maximum_minutes, ALLOWED_SKEW, v) ==
  LET lower_target_minutes == Max(target_minutes - ALLOWED_SKEW, minimum_minutes)
      upper_target_minutes == Min(target_minutes + ALLOWED_SKEW, maximum_minutes)
      lb    == LowerBound(v, lower_target_minutes)
      above == {i \in lb..Len(v) : upper_target_minutes < v[i].rel_mins}
      ub    == IF above = {} THEN Len(v) + 1 ELSE CHOOSE i \in above : \A j \in above : i <= j
  IN  SubSeq(v, lb, ub - 1)

\* ---------------------------------------------------------------- frequency quality

default_band_freq == {1800, 3500, 7000, 14000, 21000, 28000}

\* calls_with_no_freq_info as computed in process_directory
NoFreqInfo(all) ==
  {tc \in DOMAIN all : \A i \in 1..Len(all[tc]) : all[tc][i].qrg \in default_band_freq}

\* worked[tcall][rcall]: the indices of tcall's QSOs with rcall that are cross-indexed
Worked(all, nofreq, tc, rc) ==
  IF tc \in DOMAIN all /\ tc \notin nofreq /\ rc \notin nofreq /\ rc \in DOMAIN all
    THEN {i \in 1..Len(all[tc]) : all[tc][i].rcall = rc}
    ELSE {}

\* the pairings (QSO of tcall with rcall, QSO of rcall with tcall) counted in total
Pairings(all, nofreq, tc) ==
  {p \in UNION {{<<rc, i, j>> : i \in Worked(all, nofreq, tc, rc),
                                j \in Worked(all, nofreq, rc, tc)} : rc \in DOMAIN all} :
     LET t == all[tc][p[2]]
         r == all[p[1]][p[3]]
     IN  /\ band_from_qrg(t.qrg) = band_from_qrg(r.qrg)
         /\ Abs(t.rel_mins - r.rel_mins) < RUN_TIME_RANGE}

GoodPairings(all, nofreq, tc) ==
  {p \in Pairings(all, nofreq, tc) :
     Abs(all[tc][p[2]].qrg - all[p[1]][p[3]].qrg) < FREQ_SKEW}

\* float(good) / total < 0.9: the float nearest to 9/10 is below the double 0.9
good_fraction_poor(good, total) == 10 * good <= 9 * total

calls_with_unreliable_freq(all, nofreq) ==
  {tc \in DOMAIN all \ nofreq :
     LET total == Cardinality(Pairings(all, nofreq, tc))
         good  == Cardinality(GoodPairings(all, nofreq, tc))
     IN  total # 0 /\ good_fraction_poor(good, total)}

call_has_good_freq_info(c, nofreq, poorfreq) == c \notin nofreq /\ c \notin poorfreq

\* ---------------------------------------------------------------- the band pruner

\* the frequency_match lambda of process_band
frequency_match(qso1, qso2, def) ==
  IF def
    THEN \/ qso1.tcall \in calls_with_no_freq_info \/ qso2.tcall \in calls_with_no_freq_info
         \/ qso1.tcall \in calls_with_poor_freq_info \/ qso2.tcall \in calls_with_poor_freq_info
         \/ Abs(qso1.qrg - qso2.qrg) <= FREQ_SKEW
    ELSE /\ qso1.tcall \notin calls_with_no_freq_info
         /\ qso2.tcall \notin calls_with_no_freq_info
         /\ Abs(qso1.qrg - qso2.qrg) <= FREQ_SKEW

\* build_vec(all_qsos_this_band); only time windows are read from it
all_vec(b) == SortedVec(QsosOf(all_per_band_qsos[b]))

\* tcalls(all_qsos_this_band)
all_tcalls(b) == DOMAIN all_per_band_qsos[b]

\* the predicate without the test that the two QSOs are of each other
PassAMatchAnyPartner(tqso, rqso) ==
  /\ frequency_match(tqso, rqso, TRUE)
  /\ is_bust(tqso.tcall, rqso.rcall)

\* the predicate of the find_if of the first pass
PassAMatch(tqso, rqso) ==
  /\ frequency_match(tqso, rqso, TRUE)
  /\ \/ is_bust(tqso.tcall, rqso.rcall) /\ tqso.rcall = rqso.tcall
     \/ is_bust(rqso.tcall, tqso.rcall) /\ is_bust(tqso.tcall, rqso.rcall)

\* ids_to_remove of the first pass
PassAIds(b, pv) ==
  {pv[n].id : n \in
     {i \in 1..Len(pv) :
        LET rqso == pv[i]
            lower_target_minutes == Max(rqso.rel_mins - CLOCK_SKEW, 0)
            upper_target_minutes == Min(rqso.rel_mins + CLOCK_SKEW, max_rel_mins)
            range == TimeRange(all_vec(b), lower_target_minutes, upper_target_minutes)
        IN  \E k \in 1..Len(range) : PassAMatch(range[k], rqso)}}

\* is_stn_running that looks only at the station's own log
is_stn_running_own_log(c, rel_mins, qrg, b, ignore_call) ==
  IF c \notin all_tcalls(b) THEN FALSE
  ELSE LET range == get_bounds(rel_mins, 0, max_rel_mins, CLOCK_SKEW,
                               all_per_band_qsos[b][c])
       IN  \E k \in 1..Len(range) : Abs(qrg - range[k].qrg) <= FREQ_SKEW

is_stn_running(c, rel_mins, qrg, b, ignore_call) ==
  IF c \notin all_tcalls(b) THEN FALSE
  ELSE IF call_has_good_freq_info(c, calls_with_no_freq_info, calls_with_poor_freq_info)
    THEN LET range == get_bounds(rel_mins, 0, max_rel_mins, CLOCK_SKEW,
                                 all_per_band_qsos[b][c])
         IN  \E k \in 1..Len(range) : Abs(qrg - range[k].qrg) <= FREQ_SKEW
  ELSE LET lower_target_minutes == Max(rel_mins - CLOCK_SKEW, 0)
           upper_target_minutes == Min(rel_mins + CLOCK_SKEW, max_rel_mins)
           range == TimeRange(all_vec(b), lower_target_minutes, upper_target_minutes)
       IN  \E k \in 1..Len(range) :
             /\ range[k].tcall # ignore_call
             /\ range[k].rcall = c
             /\ Abs(qrg - range[k].qrg) <= FREQ_SKEW

\* ids_to_remove of the pass for busts of running entrants
PassBIds(b, pv) ==
  {pv[n].id : n \in
     {i \in 1..Len(pv) :
        \E tc \in all_tcalls(b) :
          /\ is_bust(tc, pv[i].rcall)
          /\ is_stn_running(tc, pv[i].rel_mins, pv[i].qrg, b, pv[i].tcall)}}

\* the calls of a set in some order of iteration
RECURSIVE SetToSeq(_)
SetToSeq(S) ==
  IF S = {} THEN <<>>
  ELSE LET x == CHOOSE y \in S : TRUE IN <<x>> \o SetToSeq(S \ {x})

\* rcall_logs[rcall], sorted
rcall_log(pv, rc) == SortedVec({q \in SeqToSet(pv) : q.rcall = rc})

\* possible_rcall_busts[rcall] of a map that records each bust for one call only
rcall_busts_oneway(pv, rc) ==
  LET pb == possible_busts_oneway(SetToSeq({pv[i].rcall : i \in 1..Len(pv)}))
  IN  IF rc \in DOMAIN pb THEN pb[rc] ELSE {}

\* possible_rcall_busts[rcall]: empty when possible_busts made no entry
rcall_busts(pv, rc) ==
  LET pb == possible_busts(SetToSeq({pv[i].rcall : i \in 1..Len(pv)}))
  IN  IF rc \in DOMAIN pb THEN pb[rc] ELSE {}

\* log_of_rcall_and_busts, sorted
log_of_rcall_and_busts(pv, rc) ==
  SortedVec({q \in SeqToSet(pv) : q.rcall = rc \/ q.rcall \in rcall_busts(pv, rc)})

\* the ids marked while one rcall of the inverted histogram is visited
PassCMarks(pv, rc) ==
  {pv[n].id : n \in
     {i \in 1..Len(pv) :
        /\ pv[i].rcall = rc
        /\ LET range == get_bounds(pv[i].rel_mins, 0, max_rel_mins, RUN_TIME_RANGE,
                                   log_of_rcall_and_busts(pv, rc))
           IN  \E k \in 1..Len(range) :
                 /\ range[k].rcall # rc
                 /\ frequency_match(range[k], pv[i], FALSE)}}

\* ids_to_remove after the rcalls were visited in a given order
RECURSIVE PassCIdsVisiting(_, _, _)
PassCIdsVisiting(pv, order, ids_to_remove) ==
  IF order = <<>> THEN ids_to_remove
  ELSE PassCIdsVisiting(pv, Tail(order), ids_to_remove \cup PassCMarks(pv, Head(order)))

\* the pass with the window of the first two passes
PassCIdsNarrow(pv) ==
  {pv[n].id : n \in
     {i \in 1..Len(pv) :
        LET rqso  == pv[i]
            range == get_bounds(rqso.rel_mins, 0, max_rel_mins, CLOCK_SKEW,
                                log_of_rcall_and_busts(pv, rqso.rcall))
        IN  \E k \in 1..Len(range) :
              /\ range[k].rcall # rqso.rcall
              /\ frequency_match(range[k], rqso, FALSE)}}

\* ids_to_remove of the pass for busts of running non-entrants
PassCIds(pv) ==
  {pv[n].id : n \in
     {i \in 1..Len(pv) :
        LET rqso  == pv[i]
            range == get_bounds(rqso.rel_mins, 0, max_rel_mins, RUN_TIME_RANGE,
                                log_of_rcall_and_busts(pv, rqso.rcall))
        IN  \E k \in 1..Len(range) :
              /\ range[k].rcall # rqso.rcall
              /\ frequency_match(range[k], rqso, FALSE)}}

\* histogram += qso.rcall() over pruned_vec
histogram(pv) ==
  [rc \in {pv[i].rcall : i \in 1..Len(pv)} |->
     Cardinality({i \in 1..Len(pv) : pv[i].rcall = rc})]

\* the last pass with a verbose loop that erases only below CUTOFF_LIMIT
PassDVerboseBelow(pv) ==
  IF verbose
    THEN SelectSeq(pv, LAMBDA q :
           ~\E rc \in DOMAIN histogram(pv) :
              histogram(pv)[rc] < CUTOFF_LIMIT /\ q.rcall = rc)
    ELSE SelectSeq(pv, LAMBDA q : ~(histogram(pv)[q.rcall] <= CUTOFF_LIMIT))

\* the cutoff that erases only the calls below CUTOFF_LIMIT
PassDBelow(pv) == SelectSeq(pv, LAMBDA q : ~(histogram(pv)[q.rcall] < CUTOFF_LIMIT))

\* the last pass: the verbose loop over the histogram, or the single erase_if
PassD(pv) ==
  IF verbose
    THEN SelectSeq(pv, LAMBDA q :
           ~\E rc \in DOMAIN histogram(pv) :
              histogram(pv)[rc] <= CUTOFF_LIMIT /\ q.rcall = rc)
    ELSE SelectSeq(pv, LAMBDA q : ~(histogram(pv)[q.rcall] <= CUTOFF_LIMIT))

\* ---------------------------------------------------------------- the directory pipeline

\* build_minilog: rv[qso.band()][qso.tcall()] += qso
build_minilog(m) ==
  [b \in {q.band : q \in QsosOf(m)} |->
     [tc \in {k \in DOMAIN m : \E i \in 1..Len(m[k]) : m[k][i].band = b} |->
        SelectSeq(m[tc], LAMBDA q : q.band = b)]]

\* the pruned projection built from all_qsos
PrunedProjectionOfAll == build_minilog(all_qsos)

\* const pruned_per_band_qsos { build_minilog(pruned_qsos) }
PrunedProjection == build_minilog(pruned_qsos)

\* scp_cm += qso.rcall() for every QSO of pruned_qsos whose rcall is an entrant
EntrantCounts(m) ==
  [rc \in {q.rcall : q \in {x \in QsosOf(m) : x.rcall \in scp_calls}} |->
     Cardinality({q \in QsosOf(m) : q.rcall = rc})]

\* the logs with the QSOs of entrant rcalls left in
WithEntrantRcalls(m) == m

\* erase_if on every log, then erase_if of the logs left empty
WithoutEntrantRcalls(m) ==
  LET cut == [k \in DOMAIN m |-> SelectSeq(m[k], LAMBDA q : q.rcall \notin scp_calls)]
  IN  [k \in {x \in DOMAIN cut : cut[x] # <<>>} |-> cut[k]]

\* rv += scp_cm, then rv += qso.rcall() for the QSOs of all_qsos with a returned rcall
OutputMap(retcalls) ==
  CallMapAdd(scp_cm,
    [rc \in {q.rcall : q \in {x \in QsosOf(all_qsos) : x.rcall \in retcalls}} |->
       Cardinality({q \in QsosOf(all_qsos) : q.rcall = rc})])

SortLogs ==
  /\ ppc = "ingest"
  /\ fileno > Len(files)
  /\ n_valid_logs # 0
  /\ all_qsos' \in SortedLogs(all_qsos)
  /\ ppc' = "sorted"
  /\ UNCHANGED <<cp, CUTOFF_LIMIT, TL_LIMIT, verbose, files, fileno, lineno, tcall_qsos,
                 lastread, pruned_qsos, scp_calls, n_valid_logs, scp_cm,
                 calls_with_no_freq_info, calls_with_poor_freq_info, all_per_band_qsos,
                 pruned_per_band_qsos, bpc, pruned_vec, out_calls, returned_calls, rv,
                 idVars, bustVars, schedVars, run, first_rv>>

\* pruned_qsos = all_qsos
Seed ==
  /\ ppc = "sorted"
  /\ pruned_qsos' = all_qsos
  /\ ppc' = "seeded"
  /\ UNCHANGED <<cp, CUTOFF_LIMIT, TL_LIMIT, verbose, files, fileno, lineno, tcall_qsos,
                 lastread, all_qsos, scp_calls, n_valid_logs, scp_cm,
                 calls_with_no_freq_info, calls_with_poor_freq_info, all_per_band_qsos,
                 pruned_per_band_qsos, bpc, pruned_vec, out_calls, returned_calls, rv,
                 idVars, bustVars, schedVars, run, first_rv>>

\* the rcalls that are entrants go to scp_cm and leave pruned_qsos
PruneEntrants ==
  /\ ppc = "seeded"
  /\ scp_cm' = EntrantCounts(pruned_qsos)
  /\ pruned_qsos' = WithoutEntrantRcalls(pruned_qsos)
  /\ ppc' = "pruned"
  /\ UNCHANGED <<cp, CUTOFF_LIMIT, TL_LIMIT, verbose, files, fileno, lineno, tcall_qsos,
                 lastread, all_qsos, scp_calls, n_valid_logs,
                 calls_with_no_freq_info, calls_with_poor_freq_info, all_per_band_qsos,
                 pruned_per_band_qsos, bpc, pruned_vec, out_calls, returned_calls, rv,
                 idVars, bustVars, schedVars, run, first_rv>>

Classify ==
  /\ ppc = "pruned"
  /\ calls_with_no_freq_info' = NoFreqInfo(all_qsos)
  /\ calls_with_poor_freq_info' = calls_with_unreliable_freq(all_qsos, NoFreqInfo(all_qsos))
  /\ ppc' = "classified"
  /\ UNCHANGED <<cp, CUTOFF_LIMIT, TL_LIMIT, verbose, files, fileno, lineno, tcall_qsos,
                 lastread, all_qsos, pruned_qsos, scp_calls, n_valid_logs, scp_cm,
                 all_per_band_qsos, pruned_per_band_qsos, bpc, pruned_vec, out_calls,
                 returned_calls, rv, idVars, bustVars, schedVars, run, first_rv>>

\* the two projections are built and one process_band is started per common band
Spawn ==
  /\ ppc = "classified"
  /\ all_per_band_qsos' = build_minilog(all_qsos)
  /\ pruned_per_band_qsos' = PrunedProjection
  /\ LET bands == {b \in HF_BANDS : b \in DOMAIN PrunedProjection
                                     /\ b \in DOMAIN build_minilog(all_qsos)}
     IN  /\ bpc' = [b \in bands |-> "build"]
         /\ pruned_vec' = [b \in bands |-> <<>>]
         /\ out_calls' = [b \in bands |-> {}]
  /\ ppc' = "spawned"
  /\ UNCHANGED <<cp, CUTOFF_LIMIT, TL_LIMIT, verbose, files, fileno, lineno, tcall_qsos,
                 lastread, all_qsos, pruned_qsos, scp_calls, n_valid_logs, scp_cm,
                 calls_with_no_freq_info, calls_with_poor_freq_info,
                 returned_calls, rv, idVars, bustVars, schedVars, run, first_rv>>

BandUnchanged ==
  UNCHANGED <<cp, CUTOFF_LIMIT, TL_LIMIT, verbose, files, fileno, lineno, tcall_qsos,
              lastread, all_qsos, pruned_qsos, scp_calls, n_valid_logs, scp_cm,
              calls_with_no_freq_info, calls_with_poor_freq_info, all_per_band_qsos,
              pruned_per_band_qsos, returned_calls, rv, ppc, idVars, bustVars, schedVars, run, first_rv>>

\* vector<small_qso> pruned_vec { build_vec(pruned_qsos_this_band) }
BuildVec(b) ==
  /\ ppc = "spawned" /\ bpc[b] = "build"
  /\ \E v \in Sorts(QsosOf(pruned_per_band_qsos[b])) :
       pruned_vec' = [pruned_vec EXCEPT ![b] = v]
  /\ bpc' = [bpc EXCEPT ![b] = "A"]
  /\ UNCHANGED out_calls
  /\ BandUnchanged

PassA(b) ==
  /\ ppc = "spawned" /\ bpc[b] = "A"
  /\ pruned_vec' = [pruned_vec EXCEPT ![b] = EraseIds(@, PassAIds(b, @))]
  /\ bpc' = [bpc EXCEPT ![b] = "B"]
  /\ UNCHANGED out_calls
  /\ BandUnchanged

PassB(b) ==
  /\ ppc = "spawned" /\ bpc[b] = "B"
  /\ pruned_vec' = [pruned_vec EXCEPT ![b] = EraseIds(@, PassBIds(b, @))]
  /\ bpc' = [bpc EXCEPT ![b] = "C"]
  /\ UNCHANGED out_calls
  /\ BandUnchanged

PassC(b) ==
  /\ ppc = "spawned" /\ bpc[b] = "C"
  /\ pruned_vec' = [pruned_vec EXCEPT ![b] = EraseIds(@, PassCIds(@))]
  /\ bpc' = [bpc EXCEPT ![b] = "D"]
  /\ UNCHANGED out_calls
  /\ BandUnchanged

\* the cutoff, and the return of local_scp_calls
PassDReturn(b) ==
  /\ ppc = "spawned" /\ bpc[b] = "D"
  /\ pruned_vec' = [pruned_vec EXCEPT ![b] = PassD(@)]
  /\ out_calls' = [out_calls EXCEPT ![b] = {q.rcall : q \in SeqToSet(PassD(pruned_vec[b]))}]
  /\ bpc' = [bpc EXCEPT ![b] = "done"]
  /\ BandUnchanged

\* the output map is filled as soon as one band task has returned
FillEarly ==
  /\ ppc = "spawned"
  /\ \E b \in DOMAIN bpc : bpc[b] = "done"
  /\ returned_calls' = UNION {out_calls[b] : b \in DOMAIN out_calls}
  /\ rv' = OutputMap(UNION {out_calls[b] : b \in DOMAIN out_calls})
  /\ ppc' = "returned"
  /\ UNCHANGED <<cp, CUTOFF_LIMIT, TL_LIMIT, verbose, files, fileno, lineno, tcall_qsos,
                 lastread, all_qsos, pruned_qsos, scp_calls, n_valid_logs, scp_cm,
                 calls_with_no_freq_info, calls_with_poor_freq_info, all_per_band_qsos,
                 pruned_per_band_qsos, bpc, pruned_vec, out_calls, idVars, bustVars, schedVars, run, first_rv>>

\* every future has been got: returned_calls and the output map
Fill ==
  /\ ppc = "spawned"
  /\ \A b \in DOMAIN bpc : bpc[b] = "done"
  /\ returned_calls' = UNION {out_calls[b] : b \in DOMAIN out_calls}
  /\ rv' = OutputMap(UNION {out_calls[b] : b \in DOMAIN out_calls})
  /\ ppc' = "returned"
  /\ UNCHANGED <<cp, CUTOFF_LIMIT, TL_LIMIT, verbose, files, fileno, lineno, tcall_qsos,
                 lastread, all_qsos, pruned_qsos, scp_calls, n_valid_logs, scp_cm,
                 calls_with_no_freq_info, calls_with_poor_freq_info, all_per_band_qsos,
                 pruned_per_band_qsos, bpc, pruned_vec, out_calls, idVars, bustVars, schedVars, run, first_rv>>

NextPipe ==
  \/ ReadLine
  \/ EndFile
  \/ NoValidLogs
  \/ SortLogs
  \/ Seed
  \/ PruneEntrants
  \/ Classify
  \/ Spawn
  \/ \E b \in HF_BANDS : b \in DOMAIN bpc /\ BuildVec(b)
  \/ \E b \in HF_BANDS : b \in DOMAIN bpc /\ PassA(b)
  \/ \E b \in HF_BANDS : b \in DOMAIN bpc /\ PassB(b)
  \/ \E b \in HF_BANDS : b \in DOMAIN bpc /\ PassC(b)
  \/ \E b \in HF_BANDS : b \in DOMAIN bpc /\ PassDReturn(b)
  \/ Fill

\* ---------------------------------------------------------------- the logs of a contest

MaxLines == 2        \* most lines in one log file

A1A == <<"A", "1", "A">>
B2B == <<"B", "2", "B">>
A1C == <<"A", "1", "C">>
X3X == <<"X", "3", "X">>
X3Y == <<"X", "3", "Y">>
B2C == <<"B", "2", "C">>

\* a squashed, upper-case "QSO:" line split into its fields
QsoLine(qrg, utc, tcall, rcall) ==
  [tag |-> "QSO:", nfields |-> 11, qrg |-> qrg, day |-> 0, utc |-> utc,
   tcall |-> tcall, rcall |-> rcall]

\* lines of the log of A1A
LinesA ==
  { QsoLine(14050, 201, A1A, B2B),
    QsoLine(14050, 200, A1A, X3X),
    QsoLine(14000, 230, A1A, X3X) }

\* lines of the log of B2B
LinesB ==
  { QsoLine(14051, 201, B2B, A1C),
    QsoLine(14052, 203, B2B, X3Y) }

\* lines on another band, at the edges of the period and of a band, and with
\* calls to reject
LinesOdd ==
  { QsoLine(7300,  259, A1A, X3X),
    QsoLine(14050, 300, A1A, X3X),
    QsoLine(14050, 159, A1A, X3X),
    QsoLine(7301,  206, A1A, X3X),
    QsoLine(14050, 209, A1A \o SLASH_QRP, X3X),
    QsoLine(14050, 210, A1A, <<"1", "2", "3">> \o SLASH_QRP),
    QsoLine(14050, 211, A1A, <<"1", "2">> \o SLASH_QRP),
    QsoLine(14050, 212, A1A \o SLASH_QRPP, A1A),
    QsoLine(14050, 213, A1A, <<"A", "1", "-", "X">>),
    QsoLine(14050, 214, A1A, <<"1", "2", "3">>),
    QsoLine(14050, 215, <<"A", "B", "C">>, X3X),
    QsoLine(14050, 217, A1A, A1A),
    [QsoLine(14050, 218, A1A, X3X) EXCEPT !.nfields = 8],
    [QsoLine(14050, 219, A1A, X3X) EXCEPT !.tag = "START-OF-LOG:"] }

\* A1A holds a frequency at the start of the contest: on 14050 kHz, on
\* 14060 kHz, ten minutes later, or logged with the default frequency
LinesRunA ==
  { QsoLine(14050, 200, A1A, X3X),
    QsoLine(14060, 200, A1A, X3X),
    QsoLine(14050, 210, A1A, X3X),
    QsoLine(14000, 200, A1A, X3X) }

\* X3Y records A1A there, or 10 kHz away
LinesRunB ==
  { QsoLine(14050, 200, X3Y, A1A),
    QsoLine(14060, 200, X3Y, A1A) }

\* B2B records A1C, a bust of A1A, at the same time and frequency, or B2C,
\* a call one character away from its own
LinesRunC ==
  { QsoLine(14050, 200, B2B, A1C),
    QsoLine(14050, 200, B2B, B2C) }

\* the log files of at most MaxLines lines over a set of lines
LogsOver(L) == UNION {[1..k -> L] : k \in 0..MaxLines}

\* the -l, -tl and -v settings tried
Configs == { <<1, 1, FALSE>>, <<1, 1, TRUE>>, <<2, 1, FALSE>>, <<1, 2, FALSE>> }

\* a directory holds one log of any lines, or the logs of A1A and B2B, or
\* the one-line logs of A1A, X3Y and B2B
InitPipe ==
  /\ BustIdle /\ SchedIdle /\ IdIdle
  /\ cp = contest_parameters(7200, 1)
  /\ \/ /\ files \in {<<f>> : f \in LogsOver(LinesA \cup LinesOdd)}
        /\ CUTOFF_LIMIT = 1 /\ TL_LIMIT = 1 /\ verbose = FALSE
     \/ /\ files \in {<<f, g>> : f \in LogsOver(LinesA), g \in LogsOver(LinesB)}
        /\ \E c \in Configs : CUTOFF_LIMIT = c[1] /\ TL_LIMIT = c[2] /\ verbose = c[3]
     \/ /\ files \in {<<(<<f>>), (<<g>>), (<<h>>)>> :
                         f \in LinesRunA, g \in LinesRunB, h \in LinesRunC}
        /\ CUTOFF_LIMIT = 1 /\ TL_LIMIT = 1 /\ verbose = FALSE
  /\ fileno = 1 /\ lineno = 1 /\ tcall_qsos = <<>>
  /\ lastread = [line |-> NoLine, qso |-> NoQso, kept |-> FALSE]
  /\ all_qsos = <<>> /\ pruned_qsos = <<>> /\ scp_calls = {} /\ n_valid_logs = 0
  /\ scp_cm = <<>> /\ calls_with_no_freq_info = {} /\ calls_with_poor_freq_info = {}
  /\ all_per_band_qsos = <<>> /\ pruned_per_band_qsos = <<>>
  /\ bpc = <<>> /\ pruned_vec = <<>> /\ out_calls = <<>>
  /\ returned_calls = {} /\ rv = <<>> /\ ppc = "ingest"
  /\ run = 1 /\ first_rv = <<>>

SpecPipe == InitPipe /\ [][NextPipe]_vars

\* ---------------------------------------------------------------- the program run twice

\* the orders in which files_in_directory may list the same files
FileOrders(fs) ==
  {[i \in 1..Len(fs) |-> fs[p[i]]] :
     p \in {q \in [1..Len(fs) -> 1..Len(fs)] : \A i, j \in 1..Len(fs) : q[i] = q[j] => i = j}}

\* the program is started again on the same directory with the same options:
\* a new process, the files listed in some order
Rerun ==
  /\ ppc = "returned"
  /\ run = 1
  /\ run' = 2
  /\ first_rv' = rv
  /\ files' \in FileOrders(files)
  /\ qso_id' = 0
  /\ fileno' = 1 /\ lineno' = 1 /\ tcall_qsos' = <<>>
  /\ lastread' = [line |-> NoLine, qso |-> NoQso, kept |-> FALSE]
  /\ all_qsos' = <<>> /\ pruned_qsos' = <<>> /\ scp_calls' = {} /\ n_valid_logs' = 0
  /\ scp_cm' = <<>> /\ calls_with_no_freq_info' = {} /\ calls_with_poor_freq_info' = {}
  /\ all_per_band_qsos' = <<>> /\ pruned_per_band_qsos' = <<>>
  /\ bpc' = <<>> /\ pruned_vec' = <<>> /\ out_calls' = <<>>
  /\ returned_calls' = {} /\ rv' = <<>> /\ ppc' = "ingest"
  /\ UNCHANGED <<cp, CUTOFF_LIMIT, TL_LIMIT, verbose, reg, made, bustVars, schedVars>>

\* lines of logs that A1A sent in twice, one of them out of the period
LinesTwice ==
  { QsoLine(14050, 200, A1A, X3X),
    QsoLine(14000, 230, A1A, X3X),
    QsoLine(14050, 300, A1A, X3X) }

\* a directory with two log files of the same entrant
InitTwice ==
  /\ BustIdle /\ SchedIdle /\ IdIdle
  /\ cp = contest_parameters(7200, 1)
  /\ files \in {<<f, g>> : f \in LogsOver(LinesTwice), g \in LogsOver(LinesTwice)}
  /\ CUTOFF_LIMIT = 1 /\ TL_LIMIT = 1 /\ verbose = FALSE
  /\ fileno = 1 /\ lineno = 1 /\ tcall_qsos = <<>>
  /\ lastread = [line |-> NoLine, qso |-> NoQso, kept |-> FALSE]
  /\ all_qsos = <<>> /\ pruned_qsos = <<>> /\ scp_calls = {} /\ n_valid_logs = 0
  /\ scp_cm = <<>> /\ calls_with_no_freq_info = {} /\ calls_with_poor_freq_info = {}
  /\ all_per_band_qsos = <<>> /\ pruned_per_band_qsos = <<>>
  /\ bpc = <<>> /\ pruned_vec = <<>> /\ out_calls = <<>>
  /\ returned_calls = {} /\ rv = <<>> /\ ppc = "ingest"
  /\ run = 1 /\ first_rv = <<>>

NextTwice == NextPipe \/ Rerun

SpecTwice == InitTwice /\ [][NextTwice]_vars

\* C12: two runs on the same corpus with the same options return the same
\* map, whatever the interleaving of the band tasks and whatever the order in
\* which the log files of the directory are read.
C12_SameOutputTwice ==
  (run = 2 /\ ppc = "returned") =>
    /\ DOMAIN rv = DOMAIN first_rv
    /\ \A k \in DOMAIN rv : rv[k] = first_rv[k]

\* ---------------------------------------------------------------- two entrants who worked each other

LenLogA == 2         \* lines in the log of A1A
LenLogB == 5         \* lines in the log of B2B

\* A1A logs B2B on 14050 or 14051 kHz
LinesFreqA == {QsoLine(q, 200, A1A, B2B) : q \in {14050, 14051}}

\* B2B logs A1A on 14050 or 14052 kHz, or with the default frequency of the band
LinesFreqB == {QsoLine(q, 200, B2B, A1A) : q \in {14050, 14052, 14000}}

\* the vector process_directory stores for a log file of one sender, the
\* first QSO built with the id given
IngestedLog(f, id) == [i \in 1..Len(f) |-> Stored(small_qso(f[i], id + i - 1))]

\* process_directory has read the logs of A1A and B2B and has counted and
\* erased the QSOs whose rcall is an entrant
InitFreq ==
  /\ BustIdle /\ SchedIdle
  /\ cp = contest_parameters(7200, 1)
  /\ CUTOFF_LIMIT = 1 /\ TL_LIMIT = 1 /\ verbose = FALSE
  /\ files \in {<<f, g>> : f \in [1..LenLogA -> LinesFreqA], g \in [1..LenLogB -> LinesFreqB]}
  /\ fileno = 3 /\ lineno = 1 /\ tcall_qsos = <<>>
  /\ qso_id = LenLogA + LenLogB /\ reg = <<>> /\ made = <<>>
  /\ lastread = [line |-> files[2][LenLogB],
                 qso  |-> small_qso(files[2][LenLogB], LenLogA + LenLogB - 1),
                 kept |-> TRUE]
  /\ all_qsos = [k \in {A1A, B2B} |-> IF k = A1A THEN IngestedLog(files[1], 0)
                                               ELSE IngestedLog(files[2], LenLogA)]
  /\ scp_calls = {A1A, B2B}
  /\ n_valid_logs = 2
  /\ scp_cm = EntrantCounts(all_qsos)
  /\ pruned_qsos = WithoutEntrantRcalls(all_qsos)
  /\ calls_with_no_freq_info = {} /\ calls_with_poor_freq_info = {}
  /\ all_per_band_qsos = <<>> /\ pruned_per_band_qsos = <<>>
  /\ bpc = <<>> /\ pruned_vec = <<>> /\ out_calls = <<>>
  /\ returned_calls = {} /\ rv = <<>> /\ ppc = "pruned"
  /\ run = 1 /\ first_rv = <<>>

NextFreq == Classify

SpecFreq == InitFreq /\ [][NextFreq]_vars

\* the pairings of a QSO in a's log with b and a QSO in b's log with a, on the
\* same band and less than 5 minutes apart
PairingsOf(a, b) ==
  {p \in (1..Len(all_qsos[a])) \X (1..Len(all_qsos[b])) :
     /\ all_qsos[a][p[1]].rcall = b
     /\ all_qsos[b][p[2]].rcall = a
     /\ all_qsos[a][p[1]].band = all_qsos[b][p[2]].band
     /\ Abs(all_qsos[a][p[1]].rel_mins - all_qsos[b][p[2]].rel_mins) < 5}

\* those of them whose frequencies are less than 2 kHz apart
AgreeingOf(a, b) ==
  {p \in PairingsOf(a, b) : Abs(all_qsos[a][p[1]].qrg - all_qsos[b][p[2]].qrg) < 2}

\* the senders b whose pairings with a count: neither is in the no-frequency set
CountedWith(a) ==
  {b \in DOMAIN all_qsos : a \notin calls_with_no_freq_info /\ b \notin calls_with_no_freq_info}

TotalOf(a) == Cardinality(UNION {{<<b, p>> : p \in PairingsOf(a, b)} : b \in CountedWith(a)})

GoodOf(a) == Cardinality(UNION {{<<b, p>> : p \in AgreeingOf(a, b)} : b \in CountedWith(a)})

\* C17: a sender is classified poor iff the total of its pairings is not zero
\* and 10 * good < 9 * total; a sender with exactly 90 % agreement (9 good of
\* 10) is not poor; the poor set is disjoint from the no-frequency set.
C17_PoorIffBelowNineTenths ==
  ppc = "classified" =>
    /\ \A a \in DOMAIN all_qsos :
         a \in calls_with_poor_freq_info <=>
           (TotalOf(a) # 0 /\ 10 * GoodOf(a) < 9 * TotalOf(a))
    /\ calls_with_poor_freq_info \cap calls_with_no_freq_info = {}

\* ---------------------------------------------------------------- properties of a pipeline

\* the QSOs retained by the ingestor
Retained == QsosOf(tcall_qsos) \cup QsosOf(all_qsos)

\* the QSOs of a band's pruned vector with a given rcall
SurvivorsOn(b, c) == Cardinality({i \in 1..Len(pruned_vec[b]) : pruned_vec[b][i].rcall = c})

\* C3 as stated: for CUTOFF_LIMIT >= 1 every call of the returned map is the
\* rcall of at least CUTOFF_LIMIT + 1 QSOs that survive passes A-D in the
\* pruned vector of some band.
C3_EveryEmittedCallSurvives ==
  (ppc = "returned" /\ CUTOFF_LIMIT >= 1) =>
    \A c \in DOMAIN rv :
      \E b \in DOMAIN pruned_vec : SurvivorsOn(b, c) >= CUTOFF_LIMIT + 1

\* C3 as amended: for CUTOFF_LIMIT >= 1 every call of the returned map is
\* either an entrant (a tcall with at least TL_LIMIT QSOs in a log) that is the
\* rcall of at least one retained QSO, or the rcall of at least
\* CUTOFF_LIMIT + 1 QSOs that survive passes A-D in the pruned vector of some band.
C3_EmittedIsEntrantOrSurvives ==
  (ppc = "returned" /\ CUTOFF_LIMIT >= 1) =>
    \A c \in DOMAIN rv :
      \/ c \in scp_calls /\ \E q \in QsosOf(all_qsos) : q.rcall = c
      \/ \E b \in DOMAIN pruned_vec : SurvivorsOn(b, c) >= CUTOFF_LIMIT + 1

\* a non-entrant is emitted on the strength of its survivors, next to a call
\* that the cutoff has removed
C3_Witness ==
  /\ ppc = "returned" /\ CUTOFF_LIMIT = 1
  /\ X3X \in DOMAIN rv /\ X3X \notin scp_calls
  /\ \E b \in DOMAIN pruned_vec : SurvivorsOn(b, X3X) = 2
  /\ \E q \in QsosOf(pruned_qsos) : q.rcall \notin DOMAIN rv

PrunedIds == {q.id : q \in QsosOf(pruned_qsos)}

C5_Subsets ==
  /\ ppc \notin {"ingest", "sorted", "exit"} =>
       QsosOf(pruned_qsos) \subseteq QsosOf(all_qsos)
  /\ \A b \in DOMAIN pruned_per_band_qsos :
       /\ b \in DOMAIN all_per_band_qsos
       /\ QsosOf(pruned_per_band_qsos[b]) \subseteq QsosOf(pruned_qsos)
       /\ {q.id : q \in QsosOf(pruned_per_band_qsos[b])}
            \subseteq {q.id : q \in QsosOf(all_per_band_qsos[b])}
  /\ \A b \in DOMAIN pruned_vec :
       bpc[b] # "build" =>
         /\ SeqToSet(pruned_vec[b]) \subseteq QsosOf(pruned_per_band_qsos[b])
         /\ IdsOf(pruned_vec[b]) \subseteq IdsOf(all_vec(b))

C5_OnlyRemoves ==
  /\ ppc \notin {"ingest", "sorted"} =>
       {q.id : q \in QsosOf(pruned_qsos')} \subseteq PrunedIds
  /\ \A b \in DOMAIN pruned_vec :
       bpc[b] # "build" => IdsOf(pruned_vec'[b]) \subseteq IdsOf(pruned_vec[b])

\* C5: from the seeding on, through the removal of entrants' rcalls and each
\* of passes A-D in every band, the ids of the pruned collection are ids of
\* the corresponding all collection, and no step adds a QSO to the pruned
\* collection.
C5_PrunedWithinAll == []C5_Subsets /\ [][C5_OnlyRemoves]_vars

\* a band whose passes have removed some QSOs of the pruned vector and left others
C5_Witness ==
  /\ ppc = "spawned"
  /\ QsosOf(pruned_qsos) # QsosOf(all_qsos)
  /\ \E b \in DOMAIN pruned_vec :
       /\ bpc[b] = "done"
       /\ pruned_vec[b] # <<>>
       /\ Len(pruned_vec[b]) < Cardinality(QsosOf(pruned_per_band_qsos[b]))

\* C6: every retained QSO has t_start <= time < t_start + hours * 3600 and
\* rel_mins = (time - t_start) / 60 in 0 .. hours * 60 - 1; a QSO at exactly
\* t_start is kept and one at exactly t_start + hours * 3600 is dropped.
C6_PeriodFilter ==
  /\ \A q \in Retained :
       /\ cp.t_start <= q.time
       /\ q.time < cp.t_start + cp.hours * 3600
       /\ q.rel_mins = (q.time - cp.t_start) \div 60
       /\ 0 <= q.rel_mins
       /\ q.rel_mins < cp.hours * 60
       /\ q.rel_mins <= max_rel_mins
  /\ lastread.qso.tcall # <<>> =>
       /\ lastread.qso.time = cp.t_start + cp.hours * 3600 => ~lastread.kept
       /\ (lastread.qso.time = cp.t_start /\ CallsPass(lastread.qso)) => lastread.kept

\* a QSO at the first second of the period is in the log being read, and the
\* line just read, at the first second after the period, has been dropped
C6_Witness ==
  /\ \E q \in QsosOf(tcall_qsos) : q.time = cp.t_start /\ q.rel_mins = 0
  /\ lastread.qso.tcall # <<>>
  /\ lastread.qso.time = cp.t_start + cp.hours * 3600
  /\ ~lastread.kept

ValidStoredCall(c) ==
  /\ \A i \in 1..Len(c) : c[i] \in Letters \cup Digits \cup {"/"}
  /\ Len(c) >= 3
  /\ \E i \in 1..Len(c) : c[i] \in Letters
  /\ \E i \in 1..Len(c) : c[i] \in Digits

\* C7: every retained QSO has, as stored after the /QRP and /QRPP suffixes are
\* stripped, a tcall and an rcall made of A-Z, 0-9 and '/', of length at least
\* 3, with at least one letter and at least one digit, and tcall # rcall.
C7_StoredCallsValid ==
  \A q \in Retained :
    ValidStoredCall(q.tcall) /\ ValidStoredCall(q.rcall) /\ q.tcall # q.rcall

\* the table of the bands as the claim gives it
BandTable ==
  { <<1800, 2000, "B160">>, <<3500, 4000, "B80">>, <<7000, 7300, "B40">>,
    <<14000, 14350, "B20">>, <<21000, 21450, "B15">>, <<28000, 29700, "B10">> }

TableBand(qrg) ==
  IF \E r \in BandTable : r[1] <= qrg /\ qrg <= r[2]
    THEN (CHOOSE r \in BandTable : r[1] <= qrg /\ qrg <= r[2])[3]
    ELSE "none"

\* the edges of the table and their neighbours
EdgeQrgs == UNION {{r[1] - 1, r[1], r[1] + 1, r[2] - 1, r[2], r[2] + 1} : r \in BandTable}

\* a line that the constructor rejects for no other reason than its frequency
WellFormedLine(line) ==
  /\ line.tag = "QSO:" /\ line.nfields >= 9
  /\ contains_letter(line.tcall) /\ contains_digit(line.tcall)
  /\ contains_letter(line.rcall) /\ contains_digit(line.rcall)

\* C8: every QSO of the projection of band b has band b and a qrg that
\* band_from_qrg and the table map to b; while the lines are read
\* band_from_qrg follows the table, both edges included; a line whose qrg is
\* in no range is discarded and its QSO is in no projection.
C8_BandProjection ==
  /\ \A b \in DOMAIN all_per_band_qsos : \A q \in QsosOf(all_per_band_qsos[b]) :
       q.band = b /\ band_from_qrg(q.qrg) = b /\ TableBand(q.qrg) = b
  /\ \A b \in DOMAIN pruned_per_band_qsos : \A q \in QsosOf(pruned_per_band_qsos[b]) :
       q.band = b /\ band_from_qrg(q.qrg) = b /\ TableBand(q.qrg) = b
  /\ ppc = "ingest" =>
       \A f \in EdgeQrgs :
         band_from_qrg(f) = IF TableBand(f) = "none" THEN "throw" ELSE TableBand(f)
  /\ \A q \in Retained : TableBand(q.qrg) # "none"
  /\ WellFormedLine(lastread.line) =>
       IF TableBand(lastread.line.qrg) = "none"
         THEN lastread.qso = NoQso /\ ~lastread.kept
         ELSE lastread.qso.band = TableBand(lastread.line.qrg)

\* a QSO on 7300 kHz is in the projection of 40 m, and the run has got there
\* after a line on 7301 kHz was read last and discarded
C8_Witness ==
  /\ ppc = "spawned"
  /\ "B40" \in DOMAIN all_per_band_qsos
  /\ \E q \in QsosOf(all_per_band_qsos["B40"]) : q.qrg = 7300
  /\ lastread.line.qrg = 7301
  /\ ~lastread.kept

\* the QSOs of all_qsos in which a call was heard
HeardIn(c) == {q \in QsosOf(all_qsos) : q.rcall = c}

\* C15: for every call c of the map process_directory returns, the count is
\* the number of QSOs of all_qsos, on any band, pruned or not, whose rcall is
\* c; no QSO is counted twice: the calls counted as entrants (scp_cm) and the
\* calls returned by the band pruners are disjoint.
C15_CountIsTimesHeard ==
  ppc = "returned" =>
    /\ \A c \in DOMAIN rv : rv[c] = Cardinality(HeardIn(c))
    /\ DOMAIN scp_cm \cap returned_calls = {}
    /\ DOMAIN rv = DOMAIN scp_cm \cup returned_calls

\* a run that returns an entrant counted in scp_cm and a call from a band pruner
C15_Witness ==
  /\ ppc = "returned"
  /\ DOMAIN scp_cm # {}
  /\ returned_calls # {}
  /\ \E c \in returned_calls : rv[c] = 2

\* the entrants of the contest: the senders of the logs stored
Entrants == DOMAIN all_qsos

\* C16: whatever TL_LIMIT is, an entrant's own call is in the returned map
\* only if it is the rcall of at least one QSO in the log of another sender;
\* an entrant that no other log records is not in the map.
C16_EntrantNeedsAnotherLog ==
  ppc = "returned" =>
    \A c \in Entrants :
      c \in DOMAIN rv =>
        \E t \in Entrants \ {c} : \E i \in 1..Len(all_qsos[t]) : all_qsos[t][i].rcall = c

\* with -tl 2, A1A and B2B both sent a log; B2B is in A1A's log and is
\* returned, A1A is in nobody's log and is not
C16_Witness ==
  /\ ppc = "returned"
  /\ TL_LIMIT = 2
  /\ {A1A, B2B} \subseteq Entrants
  /\ B2B \in DOMAIN rv
  /\ A1A \notin DOMAIN rv

\* the lenient frequency match as the claim words it
LenientMatch(tq, rq) ==
  \/ tq.tcall \in calls_with_no_freq_info \cup calls_with_poor_freq_info
  \/ rq.tcall \in calls_with_no_freq_info \cup calls_with_poor_freq_info
  \/ Abs(tq.qrg - rq.qrg) <= 2

\* whether the first pass is to remove rq from the pruned vector of band b
RemovedByPassA(b, rq) ==
  \E tq \in QsosOf(all_per_band_qsos[b]) :
    /\ tq.rel_mins \in Max(rq.rel_mins - 2, 0)..Min(rq.rel_mins + 2, max_rel_mins)
    /\ LenientMatch(tq, rq)
    /\ \/ is_bust(tq.tcall, rq.rcall) /\ tq.rcall = rq.tcall
       \/ is_bust(rq.tcall, tq.rcall) /\ is_bust(tq.tcall, rq.rcall)

\* a step of the first pass on band b
PassAStep(b) == b \in DOMAIN bpc /\ bpc[b] = "A" /\ bpc'[b] = "B"

C20_PassAStepExact ==
  \A b \in HF_BANDS :
    PassAStep(b) =>
      pruned_vec'[b] = SelectSeq(pruned_vec[b], LAMBDA rq : ~RemovedByPassA(b, rq))

\* C20: the first pass removes from the pruned vector exactly the QSOs rq for
\* which a QSO tq of the band's all-QSO vector lies within 2 minutes (the
\* window clamped to 0..max_rel_mins), matches in frequency leniently, and is
\* either sent by a call that rq's rcall is a bust of to rq's sender, or is a
\* mutual bust (rq's rcall of tq's tcall, tq's rcall of rq's tcall); every
\* other QSO survives the pass.
C20_PassARemovesExactly == [][C20_PassAStepExact]_vars

\* the first pass has removed a QSO of the band and left another
C20_Witness ==
  \E b \in DOMAIN bpc :
    /\ bpc[b] = "B"
    /\ pruned_vec[b] # <<>>
    /\ \E q \in QsosOf(pruned_per_band_qsos[b]) :
         /\ q.id \notin IdsOf(pruned_vec[b])
         /\ RemovedByPassA(b, q)

\* whether sender t seems to hold the frequency of rq at the time of rq
RunningAt(b, t, rq) ==
  IF t \notin calls_with_no_freq_info \cup calls_with_poor_freq_info
    THEN \E q \in SeqToSet(all_per_band_qsos[b][t]) :
           /\ Abs(q.rel_mins - rq.rel_mins) <= 2
           /\ Abs(q.qrg - rq.qrg) <= 2
    ELSE \E q \in QsosOf(all_per_band_qsos[b]) :
           /\ q.tcall # rq.tcall
           /\ q.rcall = t
           /\ Abs(q.rel_mins - rq.rel_mins) <= 2
           /\ Abs(q.qrg - rq.qrg) <= 2

\* whether the second pass is to remove rq from the pruned vector of band b
RemovedByPassB(b, rq) ==
  \E t \in DOMAIN all_per_band_qsos[b] : is_bust(t, rq.rcall) /\ RunningAt(b, t, rq)

\* a step of the second pass on band b
PassBStep(b) == b \in DOMAIN bpc /\ bpc[b] = "B" /\ bpc'[b] = "C"

\* the run-bust scenario on band b: A1A logs a QSO on 14050 kHz in the first
\* minute and another sender records A1A there
RunBustScenario(b) ==
  /\ A1A \in DOMAIN all_per_band_qsos[b]
  /\ \E q \in SeqToSet(all_per_band_qsos[b][A1A]) : q.qrg = 14050 /\ q.rel_mins = 0
  /\ \E q \in QsosOf(all_per_band_qsos[b]) :
       q.rcall = A1A /\ q.tcall # B2B /\ q.qrg = 14050 /\ q.rel_mins = 0

C21_PassBStepExact ==
  \A b \in HF_BANDS :
    PassBStep(b) =>
      /\ pruned_vec'[b] = SelectSeq(pruned_vec[b], LAMBDA rq : ~RemovedByPassB(b, rq))
      /\ RunBustScenario(b) =>
           \A i \in 1..Len(pruned_vec'[b]) :
             ~(/\ pruned_vec'[b][i].rcall = A1C /\ pruned_vec'[b][i].tcall = B2B
               /\ pruned_vec'[b][i].qrg = 14050 /\ pruned_vec'[b][i].rel_mins = 0)

\* C21: the second pass removes a QSO rq that survived the first iff some
\* sender t with a log on the band has is_bust(t, rq.rcall) and is running at
\* rq's minute and frequency: t's own log has a QSO within 2 minutes and 2 kHz
\* when t has good frequency information, otherwise a sender other than rq's
\* has logged t within 2 minutes and 2 kHz. In the run-bust scenario the QSO
\* with the bust of the running station is removed.
C21_PassBRemovesExactly == [][C21_PassBStepExact]_vars

\* the run-bust scenario after the second pass: the QSO B2B -> A1C was in the
\* vector after the first pass and is gone
C21_Witness ==
  /\ "B20" \in DOMAIN bpc /\ bpc["B20"] = "C"
  /\ Len(files) = 3
  /\ RunBustScenario("B20")
  /\ \E q \in QsosOf(pruned_per_band_qsos["B20"]) :
       /\ q.rcall = A1C
       /\ ~RemovedByPassA("B20", q)
       /\ q.id \notin IdsOf(pruned_vec["B20"])

\* the rcalls of a vector
RcallsOf(pv) == {pv[i].rcall : i \in 1..Len(pv)}

\* whether the third pass is to remove rq from the vector pv
RemovedByPassC(pv, rq) ==
  \E q \in SeqToSet(pv) :
    /\ q.rcall # rq.rcall
    /\ is_bust(rq.rcall, q.rcall)
    /\ q.rel_mins \in Max(rq.rel_mins - 5, 0)..Min(rq.rel_mins + 5, max_rel_mins)
    /\ q.tcall \notin calls_with_no_freq_info
    /\ rq.tcall \notin calls_with_no_freq_info
    /\ Abs(q.qrg - rq.qrg) <= 2

\* a step of the third pass on band b
PassCStep(b) == b \in DOMAIN bpc /\ bpc[b] = "C" /\ bpc'[b] = "D"

\* the orders in which the rcalls of a vector may be visited
VisitOrders(pv) ==
  {o \in [1..Cardinality(RcallsOf(pv)) -> RcallsOf(pv)] :
     \A i, j \in DOMAIN o : o[i] = o[j] => i = j}

C22_PassCStepExact ==
  \A b \in HF_BANDS :
    PassCStep(b) =>
      /\ pruned_vec'[b] = SelectSeq(pruned_vec[b], LAMBDA rq : ~RemovedByPassC(pruned_vec[b], rq))
      /\ \A o \in VisitOrders(pruned_vec[b]) :
           PassCIdsVisiting(pruned_vec[b], o, {}) =
             IdsOf(pruned_vec[b]) \ IdsOf(pruned_vec'[b])

\* C22: the third pass removes a surviving QSO rq with rcall R iff the
\* combined log of R and R's possible busts among the surviving rcalls holds,
\* within 5 minutes of rq (the window clamped to 0..max_rel_mins), a QSO with
\* another rcall whose sender and rq's sender are both outside the
\* no-frequency set and whose qrg is within 2 kHz of rq's; the QSOs removed
\* are the same for every order in which the rcalls are visited.
C22_PassCRemovesExactly == [][C22_PassCStepExact]_vars

\* the third pass has removed two QSOs whose rcalls are busts of each other
C22_Witness ==
  \E b \in DOMAIN bpc :
    /\ bpc[b] = "D"
    /\ \E q1, q2 \in QsosOf(pruned_per_band_qsos[b]) :
         /\ q1.rcall = X3X /\ q2.rcall = X3Y
         /\ Abs(q1.rel_mins - q2.rel_mins) = 3
         /\ ~RemovedByPassA(b, q1) /\ ~RemovedByPassB(b, q1)
         /\ q1.id \notin IdsOf(pruned_vec[b])
         /\ q2.id \notin IdsOf(pruned_vec[b])

\* how many QSOs of a vector have a given rcall
TimesIn(pv, rc) == Cardinality({i \in 1..Len(pv) : pv[i].rcall = rc})

\* a step of the last pass on band b
PassDStep(b) == b \in DOMAIN bpc /\ bpc[b] = "D" /\ bpc'[b] = "done"

C23_PassDStepExact ==
  \A b \in HF_BANDS :
    PassDStep(b) =>
      /\ pruned_vec'[b] =
           SelectSeq(pruned_vec[b], LAMBDA q : TimesIn(pruned_vec[b], q.rcall) >= CUTOFF_LIMIT + 1)
      /\ out_calls'[b] =
           {rc \in RcallsOf(pruned_vec[b]) : TimesIn(pruned_vec[b], rc) >= CUTOFF_LIMIT + 1}

\* C23: the last pass counts each rcall over the QSOs that survived the third
\* pass and drops every QSO whose rcall count is <= CUTOFF_LIMIT; process_band
\* returns exactly the rcalls whose count is at least CUTOFF_LIMIT + 1, so
\* with the limit 1 a call left in one QSO is not returned; verbose or not.
C23_PassDCutoff == [][C23_PassDStepExact]_vars

\* with -v and -l 1 a band has returned X3X, left in two QSOs, and not X3Y,
\* left in one QSO that none of the first three passes removes
C23_Witness ==
  \E b \in DOMAIN bpc :
    /\ bpc[b] = "done" /\ verbose /\ CUTOFF_LIMIT = 1
    /\ out_calls[b] = {X3X}
    /\ \E q \in QsosOf(pruned_per_band_qsos[b]) :
         /\ q.rcall = X3Y
         /\ ~RemovedByPassA(b, q) /\ ~RemovedByPassB(b, q)
         /\ \A x \in QsosOf(pruned_per_band_qsos[b]) \ {q} : Abs(x.rel_mins - q.rel_mins) > 5

\* the lines of the files of the directory that yield an accepted QSO of a sender
AcceptedLinesOf(t) ==
  {p \in UNION {{<<f, i>> : i \in 1..Len(files[f])} : f \in 1..Len(files)} :
     /\ files[p[1]][p[2]].tag = "QSO:"
     /\ Accepted(small_qso(files[p[1]][p[2]], 0))
     /\ Stored(small_qso(files[p[1]][p[2]], 0)).tcall = t}

\* C24: once all files of the directory are read, all_qsos[tcall] holds every
\* accepted in-period QSO with that tcall from every file: the QSOs of a
\* tcall that occurs in several files are merged and none is lost, whatever
\* the order of the files.
C24_AllFilesMerged ==
  ppc \notin {"idle", "ingest"} =>
    \A f \in 1..Len(files) : \A i \in 1..Len(files[f]) :
      LET t == StripQrp(files[f][i].tcall)
      IN  AcceptedLinesOf(t) # {} =>
            /\ t \in DOMAIN all_qsos
            /\ Len(all_qsos[t]) = Cardinality(AcceptedLinesOf(t))

\* the lines of file f that yield an accepted QSO of sender t
AcceptedIn(f, t) ==
  {i \in 1..Len(files[f]) :
     /\ files[f][i].tag = "QSO:"
     /\ Accepted(small_qso(files[f][i], 0))
     /\ Stored(small_qso(files[f][i], 0)).tcall = t}

\* the senders named in the lines of the files, as stored
SendersInFiles ==
  UNION {{StripQrp(files[f][i].tcall) : i \in 1..Len(files[f])} : f \in 1..Len(files)}

\* C25: a tcall is in the automatic inclusion set iff some log file yields at
\* least TL_LIMIT accepted QSOs for it. After the entrants' rcalls are counted
\* and erased, a QSO whose rcall is a sender below TL_LIMIT is neither counted
\* in scp_cm nor removed from pruned_qsos, no QSO of pruned_qsos has an rcall
\* in the set, and no sender of pruned_qsos has an empty list. The membership
\* is read at every position of the pipeline's own thread after the ingest;
\* the band tasks have no access to scp_calls.
C25_TlLimitGate ==
  /\ ppc \notin {"idle", "ingest", "spawned"} =>
       scp_calls = {t \in SendersInFiles :
                      \E f \in 1..Len(files) : Cardinality(AcceptedIn(f, t)) >= TL_LIMIT}
  /\ ppc \in {"pruned", "classified", "spawned", "returned"} =>
       /\ DOMAIN scp_cm \subseteq scp_calls
       /\ \A q \in QsosOf(all_qsos) :
            IF q.rcall \in scp_calls
              THEN q.rcall \in DOMAIN scp_cm /\ q \notin QsosOf(pruned_qsos)
              ELSE q.rcall \notin DOMAIN scp_cm /\ q \in QsosOf(pruned_qsos)
       /\ \A t \in DOMAIN pruned_qsos : pruned_qsos[t] # <<>>

\* with -tl 2 the sender B2B, with one QSO in its log, is not included
\* automatically; the QSOs that name it stay in pruned_qsos and it is returned
\* by a band pruner
C25_Witness ==
  /\ ppc = "returned" /\ TL_LIMIT = 2
  /\ B2B \in DOMAIN all_qsos /\ Len(all_qsos[B2B]) = 1
  /\ B2B \notin scp_calls /\ B2B \notin DOMAIN scp_cm
  /\ \E q \in QsosOf(pruned_qsos) : q.rcall = B2B
  /\ B2B \in returned_calls /\ B2B \in DOMAIN rv

\* a sequence of QSOs in the order of time, then id
ByTimeThenId(v) ==
  \A i, j \in 1..Len(v) :
    i < j => \/ v[i].time < v[j].time
             \/ v[i].time = v[j].time /\ v[i].id < v[j].id

\* C26: a QSO sorts by time, then by id: every sorted sequence the program
\* builds (the log of each sender, the vector build_vec returns) is in
\* non-decreasing time order with QSOs of equal time in increasing id order,
\* and so is determined by its set of QSOs.
C26_SortedByTimeThenId ==
  /\ ppc \notin {"idle", "ingest", "exit"} =>
       \A t \in DOMAIN all_qsos : ByTimeThenId(all_qsos[t])
  /\ \A b \in DOMAIN bpc : bpc[b] # "build" => ByTimeThenId(pruned_vec[b])

\* what process_band returns for band b when it runs alone, on the vector in
\* the order of time and id
BandResult(b) ==
  LET v0 == SortedVec(QsosOf(pruned_per_band_qsos[b]))
      v1 == EraseIds(v0, PassAIds(b, v0))
      v2 == EraseIds(v1, PassBIds(b, v1))
      v3 == EraseIds(v2, PassCIds(v2))
  IN  RcallsOf(PassD(v3))

\* the order of the passes of a band task
PassOrder ==
  {<<"build", "A">>, <<"A", "B">>, <<"B", "C">>, <<"C", "D">>, <<"D", "done">>}

C27_Barrier ==
  /\ ppc \in {"spawned", "returned"} =>
       DOMAIN bpc = {b \in HF_BANDS : /\ b \in DOMAIN pruned_per_band_qsos
                                      /\ b \in DOMAIN all_per_band_qsos}
  /\ ppc = "returned" =>
       /\ \A b \in DOMAIN bpc : bpc[b] = "done"
       /\ returned_calls = UNION {out_calls[b] : b \in DOMAIN bpc}
       /\ returned_calls = UNION {BandResult(b) : b \in DOMAIN bpc}

C27_BandStep ==
  (ppc = "spawned" /\ ppc' = "spawned") =>
    /\ UNCHANGED <<all_qsos, all_per_band_qsos, pruned_per_band_qsos,
                   calls_with_no_freq_info, calls_with_poor_freq_info>>
    /\ \A b \in DOMAIN bpc :
         IF bpc'[b] # bpc[b]
           THEN <<bpc[b], bpc'[b]>> \in PassOrder
           ELSE pruned_vec'[b] = pruned_vec[b] /\ out_calls'[b] = out_calls[b]

\* C27: in a pipeline one band task is spawned for each band present in both
\* projections; the output map is filled only after every band task has
\* returned; returned_calls is the union of the band results; in a band the
\* passes A, B, C, D run in that order on the one pruned vector; band tasks
\* never modify the shared projections nor the frequency sets, so the union
\* is the same for every interleaving of the band tasks.
C27_BandFanOutAndJoin == []C27_Barrier /\ [][C27_BandStep]_vars

\* two band tasks have run and the pipeline has returned
C27_Witness ==
  /\ ppc = "returned"
  /\ DOMAIN bpc = {"B40", "B20"}
  /\ \A b \in DOMAIN bpc : bpc[b] = "done"

\* whether a QSO of another sender's log gives the evidence the first pass asks for
RemovedOnOthersEvidence(b, rq) ==
  \E tq \in QsosOf(all_per_band_qsos[b]) :
    /\ tq.tcall # rq.tcall
    /\ tq.rel_mins \in Max(rq.rel_mins - 2, 0)..Min(rq.rel_mins + 2, max_rel_mins)
    /\ LenientMatch(tq, rq)
    /\ \/ is_bust(tq.tcall, rq.rcall) /\ tq.rcall = rq.tcall
       \/ is_bust(rq.tcall, tq.rcall) /\ is_bust(tq.tcall, rq.rcall)

C28_PassAStepOthersOnly ==
  \A b \in HF_BANDS :
    PassAStep(b) =>
      \A i \in 1..Len(pruned_vec[b]) :
        pruned_vec[b][i].id \notin IdsOf(pruned_vec'[b]) =>
          RemovedOnOthersEvidence(b, pruned_vec[b][i])

\* C28: the first pass removes a QSO rq only on the evidence of a QSO tq of
\* another sender's log (tq.tcall # rq.tcall); a QSO is never removed because
\* it matches itself or another QSO of its own log, so a QSO whose rcall is a
\* one-edit variant of its own sender's call is not removed for that alone.
C28_PassAOnlyOnOthersEvidence == [][C28_PassAStepOthersOnly]_vars

\* q, with another rcall, lies in the window of rq in the combined log of
\* rq's rcall and its busts and matches rq in frequency, strictly
MarksInPassC(pv, q, rq) ==
  /\ q.rcall # rq.rcall
  /\ q.rcall \in rcall_busts(pv, rq.rcall)
  /\ q.rel_mins \in Max(rq.rel_mins - RUN_TIME_RANGE, 0)..
                    Min(rq.rel_mins + RUN_TIME_RANGE, max_rel_mins)
  /\ frequency_match(q, rq, FALSE)

C29_PassCStepSymmetric ==
  \A b \in HF_BANDS :
    PassCStep(b) =>
      \A rq, q \in SeqToSet(pruned_vec[b]) :
        MarksInPassC(pruned_vec[b], q, rq) =>
          /\ rq.id \notin IdsOf(pruned_vec'[b])
          /\ q.id \notin IdsOf(pruned_vec'[b])

\* C29: the marking of the third pass is symmetric: whenever a QSO rq with
\* rcall R is marked because a QSO q with another rcall lies in rq's window
\* of 5 minutes with a strict frequency match, q is marked as well, so the
\* pass never removes only one QSO of such a pair.
C29_PassCSymmetric == [][C29_PassCStepSymmetric]_vars

\* A1A logged X3X on 14050 kHz and B2B logged X3Y on 14052 kHz three minutes
\* later; after the third pass both QSOs are gone
C29_Witness ==
  /\ "B20" \in DOMAIN bpc /\ bpc["B20"] \in {"D", "done"}
  /\ \E q1, q2 \in QsosOf(pruned_per_band_qsos["B20"]) :
       /\ q1.tcall = A1A /\ q1.rcall = X3X /\ q1.qrg = 14050
       /\ q2.tcall = B2B /\ q2.rcall = X3Y /\ q2.qrg = 14052
       /\ {A1A, B2B} \cap calls_with_no_freq_info = {}
       /\ ~RemovedByPassA("B20", q1) /\ ~RemovedByPassB("B20", q1)
       /\ ~RemovedByPassA("B20", q2) /\ ~RemovedByPassB("B20", q2)
       /\ {q1.id, q2.id} \cap IdsOf(pruned_vec["B20"]) = {}

====
